---- MODULE Spec2Model ----
(***************************************************************************)
(* Model of the backup job execution engine of Pika Backup:                *)
(* BorgCall::handle_disconnect (the reconnect policy) driving              *)
(* BorgCall::managed_process (the process supervisor), together with the   *)
(* shared status, the abort instruction, the event senders and the child   *)
(* process they act on.  src/src/borg/process.rs                           *)
(***************************************************************************)
EXTENDS Integers, Sequences, FiniteSets, TLC

\* ------------------------------------------------------------------ bounds

\* largest number of child processes spawned for one job in the model
MaxAttempts == 3
\* largest number of lines read from one child's stderr in the model
MaxLines == 2
\* largest number of senders ever registered on the communication
MaxSubs == 2
\* capacity of the status' recent message history
HistoryLen == 2
\* super::MAX_RECONNECT, scaled down
MAX_RECONNECT == 1
\* super::STALL_THRESHOLD in units of super::MESSAGE_POLL_TIMEOUT, scaled down
STALL_THRESHOLD == 1
\* super::LOCK_WAIT_RECONNECT.as_secs().to_string()
LOCK_WAIT_RECONNECT == "LOCK_WAIT_RECONNECT_SECS"

\* ------------------------------------------------------------------ lines

\* The JSON "type" values that select a variant of Progress
ProgressTypes == {"archive_progress", "progress_message", "progress_percent"}

\* A line of the child's stderr, described by what its text contains:
\* json    the text is a JSON object
\* type    the value of its "type" member ("none" when absent)
\* pfields every member the Progress variant named by type requires is there
\* log     the members levelname, name and message are there and valid
\* level   the value of levelname, msgid the value of msgid ("Undefined"
\*         when absent or not a known identifier)
MkLine(json, type, pfields, log, level, msgid) ==
    [json |-> json, type |-> type, pfields |-> pfields, log |-> log,
     level |-> level, msgid |-> msgid]

LineProgress == MkLine(TRUE, "archive_progress", TRUE, FALSE, "none", "Undefined")
LineConnectionClosed ==
    MkLine(TRUE, "log_message", FALSE, TRUE, "ERROR", "ConnectionClosed")
LinePassphraseWrong ==
    MkLine(TRUE, "log_message", FALSE, TRUE, "ERROR", "PassphraseWrong")
LineText == MkLine(FALSE, "none", FALSE, FALSE, "none", "Undefined")

\* the cleared line buffer
NoLine == MkLine(FALSE, "empty", FALSE, FALSE, "none", "Undefined")

\* every line by what it contains: text that is no JSON, and JSON with or
\* without the members of a Progress variant and of a LogMessage
AllLines ==
    {LineText} \cup
    {MkLine(TRUE, t, p, FALSE, "none", "Undefined") :
        t \in ProgressTypes \cup {"log_message", "none"}, p \in BOOLEAN} \cup
    {MkLine(TRUE, t, p, TRUE, lv, id) :
        t \in ProgressTypes \cup {"log_message", "none"}, p \in BOOLEAN,
        lv \in {"DEBUG", "INFO", "WARNING", "ERROR", "CRITICAL"},
        id \in {"ConnectionClosed", "ConnectionClosedWithHint",
                "PassphraseWrong", "Other", "Undefined"}}

\* the lines a child writes in the model
Lines == {LineProgress, LineConnectionClosed, LinePassphraseWrong, LineText}

\* LogLevel, in its derived order
LogLevelRank(level) ==
    CASE level = "DEBUG" -> 0
      [] level = "INFO" -> 1
      [] level = "WARNING" -> 2
      [] level = "ERROR" -> 3
      [] level = "CRITICAL" -> 4
      [] OTHER -> -1

\* serde_json::from_str::<log_json::Progress>(&line).is_ok()
IsProgress(line) == line.json /\ line.type \in ProgressTypes /\ line.pfields

\* utils::check_line: a parsed record when the line decodes as a LogMessage,
\* the raw text otherwise
check_line(line) ==
    IF line.json /\ line.log
    THEN [parsed |-> TRUE, level |-> line.level, msgid |-> line.msgid,
          raw |-> NoLine]
    ELSE [parsed |-> FALSE, level |-> "none", msgid |-> "Undefined",
          raw |-> line]

\* a faulty variant of Classify that tries the log record first
Classify_LogFirst(line) ==
    IF check_line(line).parsed \/ ~IsProgress(line)
    THEN [tag |-> "LogEntry", type |-> "none",
          parsed |-> check_line(line).parsed,
          level |-> check_line(line).level,
          msgid |-> check_line(line).msgid,
          raw |-> check_line(line).raw]
    ELSE [tag |-> "Progress", type |-> line.type, parsed |-> FALSE,
          level |-> "none", msgid |-> "Undefined", raw |-> NoLine]

\* the log_json::Output built from one line (process.rs 371-385): Progress
\* when the line decodes as one, the check_line entry otherwise
Classify(line) ==
    IF IsProgress(line)
    THEN [tag |-> "Progress", type |-> line.type, parsed |-> FALSE,
          level |-> "none", msgid |-> "Undefined", raw |-> NoLine]
    ELSE [tag |-> "LogEntry", type |-> "none",
          parsed |-> check_line(line).parsed,
          level |-> check_line(line).level,
          msgid |-> check_line(line).msgid,
          raw |-> check_line(line).raw]

\* the check_line entry carried by a LogEntry event
EntryOf(event) ==
    [parsed |-> event.parsed, level |-> event.level, msgid |-> event.msgid,
     raw |-> event.raw]

\* ------------------------------------------------------------------ errors

\* LogMessageEnum::has_borg_msgid
entry_has_borg_msgid(entry, msgid_needle) ==
    entry.parsed /\ entry.msgid = msgid_needle

\* a faulty variant of has_borg_msgid that looks at the first record only
has_borg_msgid_FirstOnly(err, msgid_needle) ==
    /\ err.kind = "Failed"
    /\ err.msgs # <<>>
    /\ entry_has_borg_msgid(err.msgs[1], msgid_needle)

\* BorgErr::has_borg_msgid: only a log-based failure can carry the identifier
has_borg_msgid(err, msgid_needle) ==
    /\ err.kind = "Failed"
    /\ \E i \in 1..Len(err.msgs) : entry_has_borg_msgid(err.msgs[i], msgid_needle)

\* Failure::is_connection_error
is_connection_error(err) ==
    \/ has_borg_msgid(err, "ConnectionClosed")
    \/ has_borg_msgid(err, "ConnectionClosedWithHint")

\* an Error value; msgs is the record list of Failed, code the exit code of
\* ReturnCodeError
MkErr(kind, msgs, code) == [ok |-> FALSE, kind |-> kind, msgs |-> msgs,
                            code |-> code, val |-> "none"]
MkOk(val) == [ok |-> TRUE, kind |-> "none", msgs |-> <<>>, code |-> 0,
              val |-> val]
NoResult == [ok |-> FALSE, kind |-> "none", msgs |-> <<>>, code |-> 0,
             val |-> "none"]

\* the records a log-based failure can carry: every entry check_line makes
LogEntries == {EntryOf(Classify(l)) : l \in {x \in AllLines : ~IsProgress(x)}}

\* the error values of the taxonomy: the kinds without records, the exit-code
\* error, and log-based failures with one or two records
AllErrors ==
    {MkErr(k, <<>>, 0) :
        k \in {"Io", "Json", "Unix", "PasswordMissing", "Aborted", "Send"}} \cup
    {MkErr("ReturnCode", <<>>, c) : c \in {1, 2}} \cup
    {MkErr("Failed", <<a>>, 0) : a \in LogEntries} \cup
    {MkErr("Failed", <<a, b>>, 0) : a \in LogEntries, b \in LogEntries}

\* a record that bears a severity at or above error
SeverityBearing(entry) ==
    entry.parsed /\ LogLevelRank(entry.level) >= LogLevelRank("ERROR")

RECURSIVE TrailingRun(_)
\* the maximal run of severity-bearing records at the recent end of a history
TrailingRun(history) ==
    IF history = <<>> \/ ~SeverityBearing(history[Len(history)])
    THEN <<>>
    ELSE Append(TrailingRun(SubSeq(history, 1, Len(history) - 1)),
                history[Len(history)])

\* the derivation policy of Error::try_from(LogCollection): "trailing" collects
\* the maximal trailing run of severity-bearing records, "full" takes the whole
\* recent history when any record in it is severity-bearing
ErrorPolicy == "trailing"

\* Error::try_from(status.last_combined_message_history()): the record list
\* of the log-based failure, <<>> when no error is derivable
DerivedRecords(history) ==
    IF ErrorPolicy = "trailing"
    THEN TrailingRun(history)
    ELSE IF \E i \in 1..Len(history) : SeverityBearing(history[i])
         THEN history
         ELSE <<>>

\* Status::add_message: push into the bounded history, evicting the oldest
add_message(history, entry) ==
    IF Len(history) < HistoryLen
    THEN Append(history, entry)
    ELSE Append(SubSeq(history, 2, Len(history)), entry)

\* ------------------------------------------------------------------ result

\* the result types T a caller asks for: () and a structured payload
ResultTypes == {"Unit", "Stats"}
\* what the child may leave on its standard output
Payloads == {"null", "stats", "garbage"}
\* the exit codes of the child
ExitCodes == {0, 2}

\* serde_json::from_slice::<T>(bytes)
from_slice(t, bytes) ==
    CASE t = "Unit" /\ bytes = "null" -> MkOk("unit")
      [] t = "Stats" /\ bytes = "stats" -> MkOk("stats")
      [] OTHER -> MkErr("Json", <<>>, 0)

\* a faulty variant of DecodeResult that decodes standard output for () too
DecodeResult_FromStdout(t, stdout) == from_slice(t, stdout)

\* process.rs 400-404: () is decoded from the literal null, any other T from
\* the child's standard output
DecodeResult(t, stdout) ==
    IF t = "Unit" THEN from_slice(t, "null") ELSE from_slice(t, stdout)

\* a faulty variant of ExitResult that propagates a decode failure before
\* looking at the exit status
ExitResult_DecodeFirst(t, code, stdout, history) ==
    IF ~DecodeResult(t, stdout).ok
    THEN DecodeResult(t, stdout)
    ELSE IF code = 0
         THEN DecodeResult(t, stdout)
         ELSE IF DerivedRecords(history) # <<>>
              THEN MkErr("Failed", DerivedRecords(history), 0)
              ELSE MkErr("ReturnCode", <<>>, code)

\* process.rs 406-414: the value managed_process returns after process.output()
ExitResult(t, code, stdout, history) ==
    IF code = 0
    THEN DecodeResult(t, stdout)
    ELSE IF DerivedRecords(history) # <<>>
         THEN MkErr("Failed", DerivedRecords(history), 0)
         ELSE MkErr("ReturnCode", <<>>, code)

\* ------------------------------------------------------------------ builder

\* process.rs 39-50, 173: the options of BorgCall::new followed by the
\* "--log-json" of add_basics_without_password
InitialOptions ==
    <<"--rsh", "ssh -o BatchMode=yes -o StrictHostKeyChecking=accept-new",
      "--log-json">>

\* BorgCall::add_options
add_options(opts, new) == opts \o new

\* a faulty variant of args that leaves out the separator
args_NoSeparator(command, opts, positional) ==
    command \o opts \o positional

\* process.rs 196-203, BorgCall::args: command is the Option<String> as the
\* sequence of its zero or one elements
args(command, opts, positional) ==
    command \o opts \o <<"--">> \o positional

\* the value of the injected "--rsh" option
SshBatchMode == "ssh -o BatchMode=yes -o StrictHostKeyChecking=accept-new"

\* the names and values callers pass to add_envs, and the unset marker
UserEnvNames == {"BORG_BASE_DIR", "BORG_PASSPHRASE_FD"}
UserEnvValues == {"yes", "no"}
\* the descriptor numbers a caller gives as an override of BORG_PASSPHRASE_FD
FdOverrides == {"0", "3"}
Unset == "<unset>"
NoEnvs == [n \in UserEnvNames |-> Unset]

\* credentials: the bytes of an explicitly supplied password, of the secret
\* in the secret store, and Password::default()
ExplicitPassword == "explicit-passphrase"
StoredSecret == "stored-passphrase"
EmptyPassword == ""
NoPassword == "<none>"
Credentials == {ExplicitPassword, StoredSecret}

\* BorgCall::default(), the result of new_raw()
DefaultCall ==
    [command |-> <<>>, options |-> <<>>, envs |-> NoEnvs, positional |-> <<>>,
     password |-> EmptyPassword]

\* process.rs 39-50, BorgCall::new
new(command) ==
    [DefaultCall EXCEPT !.command = <<command>>,
                        !.options = <<"--rsh", SshBatchMode>>]

\* the arguments callers give to add_envs: one or two <<name, value>> pairs
EnvPairs ==
    {<<n, v>> : n \in UserEnvNames \ {"BORG_PASSPHRASE_FD"}, v \in UserEnvValues}
        \cup {<<"BORG_PASSPHRASE_FD", v>> : v \in FdOverrides}
EnvPairSeqs == {<<p>> : p \in EnvPairs} \cup {<<p, q>> : p \in EnvPairs, q \in EnvPairs}

RECURSIVE add_envs_FirstWins(_, _)
\* a faulty variant of add_envs that keeps the value a name already has
add_envs_FirstWins(envs, vars) ==
    IF vars = <<>>
    THEN envs
    ELSE add_envs_FirstWins(
            IF envs[vars[1][1]] = Unset
            THEN [envs EXCEPT ![vars[1][1]] = vars[1][2]]
            ELSE envs,
            Tail(vars))

\* process.rs 56-66, BorgCall::add_envs: vars is a sequence of <<name, value>>
RECURSIVE add_envs(_, _)
add_envs(envs, vars) ==
    IF vars = <<>>
    THEN envs
    ELSE add_envs([envs EXCEPT ![vars[1][1]] = vars[1][2]], Tail(vars))

\* what a job configuration (BorgRunConfig) holds besides the credential data
Repo == "ssh://host/repo"
ArchivePrefix == "prefix-"
RandomStr == "1a2b3c4d"

\* globals.rs 3: HOME_DIR, and the paths a job stores relative to it
HOME_DIR == "/home/user"
REPO_MOUNT_DIR == ".mnt/borg"
RelativePaths == {".cache", "Documents", REPO_MOUNT_DIR}

\* shared.rs 157-159: get_home_dir().join(path); joining an absolute path
\* gives that path
absolute(path) ==
    IF path \in RelativePaths THEN HOME_DIR \o "/" \o path ELSE path

\* Path::borg_pattern, the pattern syntax of the exclude option
borg_pattern(path) == "pp:" \o path

\* the exclude and include sets of a job (BTreeSet: in path order)
Excludes == {<<>>, <<".cache">>, <<".cache", "/var/tmp">>}
Includes == {<<"Documents">>, <<"/srv", "Documents">>}

\* shared.rs 19-27, BackupConfig::include_dirs
include_dirs(cfg) == [i \in 1..Len(cfg.include) |-> absolute(cfg.include[i])]

\* a faulty variant of exclude_dirs_internal without the mount directory
exclude_dirs_internal_UserOnly(cfg) ==
    [i \in 1..Len(cfg.exclude) |-> absolute(cfg.exclude[i])]

\* shared.rs 29-39, BackupConfig::exclude_dirs_internal
exclude_dirs_internal(cfg) ==
    Append([i \in 1..Len(cfg.exclude) |-> absolute(cfg.exclude[i])],
           absolute(REPO_MOUNT_DIR))
CommandLineArgs == <<"--upload-ratelimit=100">>

\* the job configurations: password is borg.password(), store what a search of
\* the secret store for (backup_id, program) gives
BorgConfigs ==
    [password : {NoPassword, ExplicitPassword}, is_encrypted : BOOLEAN,
     config_id : BOOLEAN, store : {"item", "empty", "error"},
     exclude : Excludes, include : Includes]

\* the job configuration of the specifications that build nothing
NoBorg ==
    [password |-> NoPassword, is_encrypted |-> FALSE, config_id |-> FALSE,
     store |-> "empty", exclude |-> <<>>, include |-> <<"Documents">>]

RECURSIVE ExcludeOptions(_)
\* process.rs 86-88: one "--exclude=<pattern>" option per excluded directory,
\* each added by its own add_options call
ExcludeOptions(dirs) ==
    IF dirs = <<>>
    THEN <<>>
    ELSE <<"--exclude=" \o borg_pattern(dirs[1])>> \o ExcludeOptions(Tail(dirs))

\* process.rs 85-98, BorgCall::add_include_exclude
add_include_exclude(call, cfg) ==
    [call EXCEPT
        !.options = add_options(@, ExcludeOptions(exclude_dirs_internal(cfg))),
        !.positional = @ \o include_dirs(cfg)]

\* a faulty variant of add_archive that always appends the archive target
add_archive_Appending(call) ==
    [call EXCEPT !.positional =
        Append(@, Repo \o "::" \o ArchivePrefix \o RandomStr)]

\* process.rs 100-115, BorgCall::add_archive
add_archive(call) ==
    LET arg == Repo \o "::" \o ArchivePrefix \o RandomStr
    IN IF call.positional # <<>>
       THEN [call EXCEPT !.positional[1] = arg]
       ELSE [call EXCEPT !.positional = Append(@, arg)]

\* the outcome of a builder operation that can fail
CallOk(call) == [ok |-> TRUE, kind |-> "none", call |-> call]
CallErr(kind, call) == [ok |-> FALSE, kind |-> kind, call |-> call]

\* shared.rs 345: the error a secret_service error is converted into by `?`
FromSsError == "PasswordMissing"

\* a faulty variant of add_password that ignores an explicit password when
\* the job is not encrypted
add_password_EncryptedOnly(call, cfg) ==
    IF ~cfg.is_encrypted
    THEN CallOk([call EXCEPT !.password = EmptyPassword])
    ELSE IF cfg.password # NoPassword
         THEN CallOk([call EXCEPT !.password = cfg.password])
         ELSE IF cfg.config_id /\ cfg.store = "item"
              THEN CallOk([call EXCEPT !.password = StoredSecret])
              ELSE CallErr("PasswordMissing", call)

\* a faulty variant of add_password that resets the credential when it fails
add_password_ClearingOnFailure(call, cfg) ==
    IF cfg.password # NoPassword
    THEN CallOk([call EXCEPT !.password = cfg.password])
    ELSE IF cfg.is_encrypted
         THEN IF cfg.config_id /\ cfg.store = "item"
              THEN CallOk([call EXCEPT !.password = StoredSecret])
              ELSE CallErr("PasswordMissing",
                           [call EXCEPT !.password = EmptyPassword])
         ELSE CallOk([call EXCEPT !.password = EmptyPassword])

\* process.rs 117-146, BorgCall::add_password
add_password(call, cfg) ==
    IF cfg.password # NoPassword
    THEN CallOk([call EXCEPT !.password = cfg.password])
    ELSE IF cfg.is_encrypted
         THEN IF cfg.config_id
              THEN CASE cfg.store = "item" ->
                            CallOk([call EXCEPT !.password = StoredSecret])
                     [] cfg.store = "empty" -> CallErr("PasswordMissing", call)
                     [] OTHER -> CallErr(FromSsError, call)
              ELSE CallErr("PasswordMissing", call)
         ELSE CallOk([call EXCEPT !.password = EmptyPassword])

\* process.rs 172-188, BorgCall::add_basics_without_password
add_basics_without_password(call) ==
    LET c1 == [call EXCEPT !.options = add_options(@, <<"--log-json">>)]
        c2 == IF c1.positional = <<>>
              THEN [c1 EXCEPT !.positional = Append(@, Repo)]
              ELSE c1
    IN [c2 EXCEPT !.options = add_options(@, CommandLineArgs)]

\* process.rs 190-194, BorgCall::add_basics
add_basics(call, cfg) ==
    IF add_password(call, cfg).ok
    THEN CallOk(add_basics_without_password(add_password(call, cfg).call))
    ELSE add_password(call, cfg)

\* the credential descriptors the parent holds open
NoFds == [read |-> 0, write |-> 0]

\* the descriptor number UnixStream::pair gives the read end: the lowest
\* free one, after stdin, stdout, stderr and the descriptors still open
FirstFreeFd(fds) == 3 + fds.read + fds.write

\* a faulty variant of set_password that exports the passphrase itself
set_password_Cleartext(password, fds) ==
    [name |-> "BORG_PASSPHRASE", value |-> password, pipe |-> password,
     fds |-> fds]

\* process.rs 148-170, BorgCall::set_password when no call in it fails: the
\* environment entry, what was written to the pipe, and the descriptors the
\* parent holds afterwards: pipe_writer is dropped at the return,
\* pipe_reader.into_raw_fd() gives up ownership without closing
set_password(password, fds) ==
    [name |-> "BORG_PASSPHRASE_FD", value |-> ToString(FirstFreeFd(fds)),
     pipe |-> password, fds |-> [fds EXCEPT !.read = @ + 1]]

\* the names in a child's environment that the builder can set
ChildEnvNames == UserEnvNames \cup {"BORG_PASSPHRASE_FD", "BORG_PASSPHRASE"}

\* process.rs 223-234, BorgCall::cmd_async: cmd.envs([set_password]) and
\* then .envs(self.envs), a later entry replacing an earlier one of its name
ChildEnv(entry, envs) ==
    [n \in ChildEnvNames |->
        IF n \in UserEnvNames /\ envs[n] # Unset
        THEN envs[n]
        ELSE IF n = entry.name THEN entry.value ELSE Unset]

\* ------------------------------------------------------------------ state

VARIABLES
    pc,            \* where the job task stands in handle_disconnect / managed_process
    options,       \* BorgCall.options
    retries,       \* handle_disconnect's retries
    retried,       \* handle_disconnect's retried
    status,        \* communication.status: run, started, message history
    instruction,   \* communication.instruction
    sender,        \* communication.sender: the registered senders, in order
    chan,          \* per sender: state of its channel ("open", "closed" by close(),
                   \* "dropped" by its receiver), got: number of events sent on it
                   \* in this attempt
    iter,          \* the senders still to visit in the running for loop
    process,       \* the child of the current attempt: its state, the signal sent to it
    unresponsive,  \* managed_process' unresponsive, in poll timeouts
    line,          \* managed_process' line buffer: the line read last, NoLine when clear
    nread,         \* number of lines read from the child in this attempt
    attempts,      \* number of children spawned so far
    spawn_args,    \* the argument vector of the latest spawn
    result,        \* what the latest managed_process returned
    returned,      \* what handle_disconnect returned
    output,        \* what process.output() gave in this attempt
    T,             \* the result type of the job
    first_fail,    \* the attempt that first failed with a connection error
    chain,         \* children spawned since the status was last set to Reconnecting
    run_at_fail,   \* status.run as handle_disconnect found it at the first connection error
    fds,           \* the credential descriptors open in the parent: read and write ends
    call,          \* a BorgCall under construction
    borg,          \* the job configuration the builder is given
    built,         \* the outcome of the latest builder operation
    nops,          \* number of builder operations applied
    store,         \* the Status Store as its readers see it: the snapshots
                   \* published, the writer's draft, a reader's latest loads
    cls,           \* a line given to the classification, and the event made of it
    result_sink,   \* the one-shot channel to the holder of the Process handle
    failure,       \* an error value given to the connection-error test, and
                   \* the arm of the match it takes
    stop           \* the stop action of the user interface: where its handler
                   \* is, the operation it found and the dialog it showed

vars == <<pc, options, retries, retried, status, instruction, sender, chan,
          iter, process, unresponsive, line, nread, attempts, spawn_args, result,
          returned, output, T, first_fail, chain, run_at_fail, fds, call,
          borg, built, nops, store, cls, result_sink, failure,
          stop>>

Subs == 1..MaxSubs

NoProcess == [state |-> "none", signal |-> "none"]
NoOutput == [taken |-> FALSE, code |-> 0, stdout |-> "null"]
NewChan == [state |-> "open", got |-> 0]

\* status.update(|status| status.run = run)
SetRun(run) == status' = [status EXCEPT !.run = run]

\* no builder operation was applied yet
NoBuilt ==
    [op |-> "none", ok |-> TRUE, kind |-> "none", argv |-> <<>>,
     env |-> [n \in ChildEnvNames |-> Unset], pipe |-> NoPassword, fd |-> 0,
     vars |-> <<>>]

\* process.rs 251: the one-shot channel as oneshot::channel() makes it
NewSink == [state |-> "open", value |-> NoResult]

\* the job task's state when handle_disconnect is entered
JobInit ==
    /\ pc = "start"
    /\ options = InitialOptions
    /\ retries = 0
    /\ retried = FALSE
    /\ status = [run |-> "Init", started |-> FALSE, history |-> <<>>]
    /\ instruction = "Nothing"
    /\ \E n \in 0..1 : sender = [i \in 1..n |-> i]
    /\ chan = [i \in Subs |-> NewChan]
    /\ iter = <<>>
    /\ process = NoProcess
    /\ unresponsive = 0
    /\ line = NoLine
    /\ nread = 0
    /\ attempts = 0
    /\ spawn_args = <<>>
    /\ result = NoResult
    /\ returned = NoResult
    /\ output = NoOutput
    /\ T \in ResultTypes
    /\ first_fail = 0
    /\ chain = 0
    /\ run_at_fail = "none"
    /\ fds = NoFds
    /\ result_sink = NewSink

\* a Status Store holding the initial snapshot, never loaded
NoStore ==
    [published |-> <<[run |-> "Init", started |-> FALSE, history |-> <<>>,
                      estimated_size |-> "unknown"]>>,
     drafting |-> FALSE,
     pending |-> [field |-> "started", run |-> "none", line |-> NoLine],
     base |-> 1,
     draft |-> [run |-> "Init", started |-> FALSE, history |-> <<>>,
                estimated_size |-> "unknown"],
     other |-> [drafting |-> FALSE, base |-> 1],
     loads |-> <<>>]

\* the builder with nothing applied, as every job starts
BuilderIdle ==
    /\ built = NoBuilt
    /\ nops = 0

\* the stop action was not triggered
NoStop == [pc |-> "idle", active |-> TRUE, task |-> "Create", run |-> "Init",
           asked |-> "none", answer |-> "none"]

\* no error value was tested
NoFailure == [err |-> NoResult, arm |-> "none", done |-> FALSE]

\* no line was classified
NoCls == [line |-> NoLine, event |-> Classify(NoLine), done |-> FALSE]

Init ==
    /\ JobInit
    /\ store = NoStore
    /\ cls = NoCls
    /\ failure = NoFailure
    /\ stop = NoStop
    /\ call = new("create")
    /\ borg = NoBorg
    /\ BuilderIdle

\* ------------------------------------------------------------- environment

\* the caller sets Instruction::Abort while the job runs
SetAbort ==
    /\ pc # "done"
    /\ instruction = "Nothing"
    /\ instruction' = "Abort"
    /\ UNCHANGED <<pc, options, retries, retried, status, sender, chan, iter,
                   process, unresponsive, line, nread, attempts, spawn_args,
                   result, returned, output, T, first_fail, chain,
                   run_at_fail, fds, call, borg, built, nops, store, cls,
                   result_sink, failure, stop>>

\* an observer registers one more sender, before an attempt starts
Subscribe ==
    /\ pc \in {"start", "spawn", "sleep"}
    /\ Len(sender) < MaxSubs
    /\ sender' = Append(sender, Len(sender) + 1)
    /\ UNCHANGED <<pc, options, retries, retried, status, instruction, chan,
                   iter, process, unresponsive, line, nread, attempts,
                   spawn_args, result, returned, output, T, first_fail, chain,
                   run_at_fail, fds, call, borg, built, nops, store, cls,
                   result_sink, failure, stop>>

\* an observer drops the receiving end of its channel
DropReceiver ==
    /\ pc # "done"
    /\ \E i \in 1..Len(sender) :
        /\ chan[sender[i]].state = "open"
        /\ chan' = [chan EXCEPT ![sender[i]].state = "dropped"]
    /\ UNCHANGED <<pc, options, retries, retried, status, instruction, sender,
                   iter, process, unresponsive, line, nread, attempts,
                   spawn_args, result, returned, output, T, first_fail, chain,
                   run_at_fail, fds, call, borg, built, nops, store, cls,
                   result_sink, failure, stop>>

\* the child terminates, of its own accord or after SIGTERM
ChildExit ==
    /\ process.state = "running"
    /\ process' = [process EXCEPT !.state = "exited"]
    /\ UNCHANGED <<pc, options, retries, retried, status, instruction, sender,
                   chan, iter, unresponsive, line, nread, attempts,
                   spawn_args, result, returned, output, T, first_fail, chain,
                   run_at_fail, fds, call, borg, built, nops, store, cls,
                   result_sink, failure, stop>>

\* ---------------------------------------------------------- handle_disconnect

\* process.rs 267-272: status.started is set, retries = 0, retried = false
Start ==
    /\ pc = "start"
    /\ status' = [status EXCEPT !.started = TRUE]
    /\ pc' = "spawn"
    /\ UNCHANGED <<options, retries, retried, instruction, sender, chan, iter,
                   process, unresponsive, line, nread, attempts, spawn_args,
                   result, returned, output, T, first_fail, chain,
                   run_at_fail, fds, call, borg, built, nops, store, cls,
                   result_sink, failure, stop>>

\* ------------------------------------------------------------ managed_process

\* process.rs 315-324: spawn_async() succeeds; a new child runs with the
\* argument vector args() of the options as they are now
Spawn ==
    /\ pc = "spawn"
    /\ attempts < MaxAttempts
    /\ process' = [state |-> "running", signal |-> "none"]
    /\ attempts' = attempts + 1
    /\ chain' = chain + 1
    /\ spawn_args' = args(<<"create">>, options, <<"repo::archive">>)
    /\ unresponsive' = 0
    /\ line' = NoLine
    /\ nread' = 0
    /\ output' = NoOutput
    /\ chan' = [i \in Subs |-> [chan[i] EXCEPT !.got = 0]]
    /\ fds' = set_password(call.password, fds).fds
    /\ pc' = "poll"
    /\ UNCHANGED <<options, retries, retried, status, instruction, sender,
                   iter, result, returned, T, first_fail, run_at_fail, call,
                   borg, built, nops, store, cls, result_sink, failure, stop>>

\* process.rs 316: spawn_async()? fails, in set_password (both ends of the
\* pipe are dropped) or in spawn() after it
SpawnFail ==
    /\ pc = "spawn"
    /\ attempts < MaxAttempts
    /\ \/ fds' = fds
       \/ fds' = set_password(call.password, fds).fds
    /\ result' = MkErr("Io", <<>>, 0)
    /\ pc' = "match"
    /\ UNCHANGED <<options, retries, retried, status, instruction, sender,
                   chan, iter, process, unresponsive, line, nread, attempts,
                   spawn_args, returned, output, T, first_fail, chain,
                   run_at_fail, call, borg, built, nops, store, cls,
                   result_sink, failure, stop>>

\* process.rs 328-331: the abort instruction is seen at the top of the loop
AbortObserved ==
    /\ pc = "poll"
    /\ instruction = "Abort"
    /\ SetRun("Stopping")
    /\ pc' = "kill"
    /\ UNCHANGED <<options, retries, retried, instruction, sender, chan, iter,
                   process, unresponsive, line, nread, attempts, spawn_args,
                   result, returned, output, T, first_fail, chain,
                   run_at_fail, fds, call, borg, built, nops, store, cls,
                   result_sink, failure, stop>>

\* process.rs 333-336: SIGTERM is sent to the child
Kill ==
    /\ pc = "kill"
    /\ process' = [process EXCEPT !.signal = "SIGTERM"]
    /\ pc' = "wait"
    /\ UNCHANGED <<options, retries, retried, status, instruction, sender,
                   chan, iter, unresponsive, line, nread, attempts,
                   spawn_args, result, returned, output, T, first_fail, chain,
                   run_at_fail, fds, call, borg, built, nops, store, cls,
                   result_sink, failure, stop>>

\* process.rs 333-336: kill(..)? fails
KillFail ==
    /\ pc = "kill"
    /\ result' = MkErr("Unix", <<>>, 0)
    /\ pc' = "match"
    /\ UNCHANGED <<options, retries, retried, status, instruction, sender,
                   chan, iter, process, unresponsive, line, nread, attempts,
                   spawn_args, returned, output, T, first_fail, chain,
                   run_at_fail, fds, call, borg, built, nops, store, cls,
                   result_sink, failure, stop>>

\* a faulty variant of Wait that does not wait for the child's exit
Wait_WithoutExit ==
    /\ pc = "wait"
    /\ result' = MkErr("Aborted", <<>>, 0)
    /\ pc' = "match"
    /\ UNCHANGED <<options, retries, retried, status, instruction, sender,
                   chan, iter, process, unresponsive, line, nread, attempts,
                   spawn_args, returned, output, T, first_fail, chain,
                   run_at_fail, fds, call, borg, built, nops, store, cls,
                   result_sink, failure, stop>>

\* process.rs 337-339: process.status() returns once the child has exited
Wait ==
    /\ pc = "wait"
    /\ process.state = "exited"
    /\ result' = MkErr("Aborted", <<>>, 0)
    /\ pc' = "match"
    /\ UNCHANGED <<options, retries, retried, status, instruction, sender,
                   chan, iter, process, unresponsive, line, nread, attempts,
                   spawn_args, returned, output, T, first_fail, chain,
                   run_at_fail, fds, call, borg, built, nops, store, cls,
                   result_sink, failure, stop>>

\* process.rs 337: process.status().await? fails
WaitFail ==
    /\ pc = "wait"
    /\ result' = MkErr("Io", <<>>, 0)
    /\ pc' = "match"
    /\ UNCHANGED <<options, retries, retried, status, instruction, sender,
                   chan, iter, process, unresponsive, line, nread, attempts,
                   spawn_args, returned, output, T, first_fail, chain,
                   run_at_fail, fds, call, borg, built, nops, store, cls,
                   result_sink, failure, stop>>

\* a faulty variant of PollRead that reads without looking at the instruction
PollRead_IgnoringAbort ==
    /\ pc = "poll"
    /\ line' = NoLine
    /\ pc' = "read"
    /\ UNCHANGED <<options, retries, retried, status, instruction, sender,
                   chan, iter, process, unresponsive, nread, attempts,
                   spawn_args, result, returned, output, T, first_fail, chain,
                   run_at_fail, fds, call, borg, built, nops, store, cls,
                   result_sink, failure, stop>>

\* process.rs 328, 342-345: no abort instruction, the line buffer is cleared and
\* the task goes on to read
PollRead ==
    /\ pc = "poll"
    /\ instruction # "Abort"
    /\ line' = NoLine
    /\ pc' = "read"
    /\ UNCHANGED <<options, retries, retried, status, instruction, sender,
                   chan, iter, process, unresponsive, nread, attempts,
                   spawn_args, result, returned, output, T, first_fail, chain,
                   run_at_fail, fds, call, borg, built, nops, store, cls,
                   result_sink, failure, stop>>

\* a faulty variant of ReadTimeout that does not look at Reconnecting
ReadTimeout_StallsWhileReconnecting ==
    /\ pc = "read"
    /\ process.state = "running"
    /\ unresponsive <= STALL_THRESHOLD
    /\ unresponsive' = unresponsive + 1
    /\ IF unresponsive + 1 > STALL_THRESHOLD
       THEN SetRun("Stalled")
       ELSE UNCHANGED status
    /\ pc' = "poll"
    /\ UNCHANGED <<options, retries, retried, instruction, sender, chan, iter,
                   process, line, nread, attempts, spawn_args, result,
                   returned, output, T, first_fail, chain, run_at_fail, fds,
                   call, borg, built, nops, store, cls, result_sink, failure,
                   stop>>

\* process.rs 349-359: the read timed out
ReadTimeout ==
    /\ pc = "read"
    /\ process.state = "running"
    /\ unresponsive <= STALL_THRESHOLD
    /\ unresponsive' = unresponsive + 1
    /\ IF unresponsive + 1 > STALL_THRESHOLD /\ status.run # "Reconnecting"
       THEN SetRun("Stalled")
       ELSE UNCHANGED status
    /\ pc' = "poll"
    /\ UNCHANGED <<options, retries, retried, instruction, sender, chan, iter,
                   process, line, nread, attempts, spawn_args, result,
                   returned, output, T, first_fail, chain, run_at_fail, fds,
                   call, borg, built, nops, store, cls, result_sink, failure,
                   stop>>

\* process.rs 360: the read failed
ReadError ==
    /\ pc = "read"
    /\ result' = MkErr("Io", <<>>, 0)
    /\ pc' = "match"
    /\ UNCHANGED <<options, retries, retried, status, instruction, sender,
                   chan, iter, process, unresponsive, line, nread, attempts,
                   spawn_args, returned, output, T, first_fail, chain,
                   run_at_fail, fds, call, borg, built, nops, store, cls,
                   result_sink, failure, stop>>

\* process.rs 362, 392: end of stream; the loop over the senders to close starts
ReadEof ==
    /\ pc = "read"
    /\ process.state = "exited"
    /\ iter' = sender
    /\ pc' = "close"
    /\ UNCHANGED <<options, retries, retried, status, instruction, sender,
                   chan, process, unresponsive, line, nread, attempts,
                   spawn_args, result, returned, output, T, first_fail, chain,
                   run_at_fail, fds, call, borg, built, nops, store, cls,
                   result_sink, failure, stop>>

\* a faulty variant of StatusAfterLine in which any line ensures Running
StatusAfterLine_AnyLineRunning(st, l) ==
    IF Classify(l).tag = "Progress"
    THEN [st EXCEPT !.run = "Running"]
    ELSE [st EXCEPT !.run = "Running",
                    !.history = add_message(st.history, EntryOf(Classify(l)))]

\* process.rs 371-385: the status update a line causes
StatusAfterLine(st, l) ==
    IF Classify(l).tag = "Progress"
    THEN IF st.run # "Running" THEN [st EXCEPT !.run = "Running"] ELSE st
    ELSE [st EXCEPT !.history = add_message(st.history, EntryOf(Classify(l)))]

\* process.rs 364-387: one line read, classified, the status updated; the loop
\* over the senders to publish to starts
ReadLine ==
    /\ pc = "read"
    /\ nread < MaxLines
    /\ \E l \in Lines :
        /\ line' = l
        /\ status' = StatusAfterLine(status, l)
    /\ nread' = nread + 1
    /\ unresponsive' = 0
    /\ iter' = sender
    /\ pc' = "publish"
    /\ UNCHANGED <<options, retries, retried, instruction, sender, chan,
                   process, attempts, spawn_args, result, returned, output, T,
                   first_fail, chain, run_at_fail, fds, call, borg, built,
                   nops, store, cls, result_sink, failure, stop>>

\* a send on the channel succeeds unless it was closed or its receiver dropped
CanSend(c) == c.state = "open"

\* process.rs 387-389: the event is sent to the next sender
PublishOne ==
    /\ pc = "publish"
    /\ iter # <<>>
    /\ CanSend(chan[Head(iter)])
    /\ chan' = [chan EXCEPT ![Head(iter)].got = @ + 1]
    /\ iter' = Tail(iter)
    /\ UNCHANGED <<pc, options, retries, retried, status, instruction, sender,
                   process, unresponsive, line, nread, attempts, spawn_args,
                   result, returned, output, T, first_fail, chain,
                   run_at_fail, fds, call, borg, built, nops, store, cls,
                   result_sink, failure, stop>>

\* process.rs 388: sender.send(..).await? fails
PublishFail ==
    /\ pc = "publish"
    /\ iter # <<>>
    /\ ~CanSend(chan[Head(iter)])
    /\ result' = MkErr("Send", <<>>, 0)
    /\ iter' = <<>>
    /\ pc' = "match"
    /\ UNCHANGED <<options, retries, retried, status, instruction, sender,
                   chan, process, unresponsive, line, nread, attempts,
                   spawn_args, returned, output, T, first_fail, chain,
                   run_at_fail, fds, call, borg, built, nops, store, cls,
                   result_sink, failure, stop>>

\* process.rs 387-390: every sender was visited, back to the top of the loop
PublishDone ==
    /\ pc = "publish"
    /\ iter = <<>>
    /\ pc' = "poll"
    /\ UNCHANGED <<options, retries, retried, status, instruction, sender,
                   chan, iter, process, unresponsive, line, nread, attempts,
                   spawn_args, result, returned, output, T, first_fail, chain,
                   run_at_fail, fds, call, borg, built, nops, store, cls,
                   result_sink, failure, stop>>

\* process.rs 392-394: the next sender is closed
CloseOne ==
    /\ pc = "close"
    /\ iter # <<>>
    /\ chan' = [chan EXCEPT ![Head(iter)].state = "closed"]
    /\ iter' = Tail(iter)
    /\ UNCHANGED <<pc, options, retries, retried, status, instruction, sender,
                   process, unresponsive, line, nread, attempts, spawn_args,
                   result, returned, output, T, first_fail, chain,
                   run_at_fail, fds, call, borg, built, nops, store, cls,
                   result_sink, failure, stop>>

\* process.rs 392-396: every sender was closed, the task awaits the output
CloseDone ==
    /\ pc = "close"
    /\ iter = <<>>
    /\ pc' = "output"
    /\ UNCHANGED <<options, retries, retried, status, instruction, sender,
                   chan, iter, process, unresponsive, line, nread, attempts,
                   spawn_args, result, returned, output, T, first_fail, chain,
                   run_at_fail, fds, call, borg, built, nops, store, cls,
                   result_sink, failure, stop>>

\* a faulty variant of Output that looks at the instruction once more
Output_CheckingAbort ==
    /\ pc = "output"
    /\ process.state = "exited"
    /\ \E code \in ExitCodes, stdout \in Payloads :
        /\ output' = [taken |-> TRUE, code |-> code, stdout |-> stdout]
        /\ result' = IF instruction = "Abort"
                     THEN MkErr("Aborted", <<>>, 0)
                     ELSE ExitResult(T, code, stdout, status.history)
    /\ pc' = "match"
    /\ UNCHANGED <<options, retries, retried, status, instruction, sender,
                   chan, iter, process, unresponsive, line, nread, attempts,
                   spawn_args, returned, T, first_fail, chain, run_at_fail,
                   fds, call, borg, built, nops, store, cls, result_sink,
                   failure, stop>>

\* process.rs 396-414: the child has exited, its status and standard output
\* are collected and the attempt's result computed from them
Output ==
    /\ pc = "output"
    /\ process.state = "exited"
    /\ \E code \in ExitCodes, stdout \in Payloads :
        /\ output' = [taken |-> TRUE, code |-> code, stdout |-> stdout]
        /\ result' = ExitResult(T, code, stdout, status.history)
    /\ pc' = "match"
    /\ UNCHANGED <<options, retries, retried, status, instruction, sender,
                   chan, iter, process, unresponsive, line, nread, attempts,
                   spawn_args, returned, T, first_fail, chain, run_at_fail,
                   fds, call, borg, built, nops, store, cls, result_sink,
                   failure, stop>>

\* process.rs 396: process.output().await? fails
OutputFail ==
    /\ pc = "output"
    /\ result' = MkErr("Io", <<>>, 0)
    /\ pc' = "match"
    /\ UNCHANGED <<options, retries, retried, status, instruction, sender,
                   chan, iter, process, unresponsive, line, nread, attempts,
                   spawn_args, returned, output, T, first_fail, chain,
                   run_at_fail, fds, call, borg, built, nops, store, cls,
                   result_sink, failure, stop>>

\* ---------------------------------------------------------- handle_disconnect

\* a faulty variant of ConnectionArm without the match guard
ConnectionArm_AnyFailure(res) == ~res.ok /\ res.kind = "Failed"

\* a faulty variant of ConnectionArm that takes every error
ConnectionArm_AnyError(res) == ~res.ok

\* process.rs 277: Err(Error::Failed(ref failure)) if failure.is_connection_error()
ConnectionArm(res) == ~res.ok /\ res.kind = "Failed" /\ is_connection_error(res)

\* a faulty variant of OptionsAfterDisconnect that adds the options every time
OptionsAfterDisconnect_Always(opts, was_retried) ==
    add_options(opts, <<"--lock-wait", LOCK_WAIT_RECONNECT>>)

\* a faulty variant of OptionsAfterDisconnect that never adds the options
OptionsAfterDisconnect_Never(opts, was_retried) == opts

\* process.rs 278-285: the lock-wait options are added on the first disconnect
OptionsAfterDisconnect(opts, was_retried) ==
    IF ~was_retried
    THEN add_options(opts, <<"--lock-wait", LOCK_WAIT_RECONNECT>>)
    ELSE opts

\* a faulty variant of RetriesAfterCheck that never restarts the counter
RetriesAfterCheck_NoReset(run, count) == count

\* process.rs 287-293: the counter restarts when the status is not Reconnecting
RetriesAfterCheck(run, count) == IF run # "Reconnecting" THEN 0 ELSE count

\* a faulty variant of MayRetry that allows one retry more
MayRetry_Inclusive(count) == count <= MAX_RECONNECT

\* process.rs 295: retries < super::MAX_RECONNECT
MayRetry(count) == count < MAX_RECONNECT

\* process.rs 276-307: the match on the attempt's result; managed_process has
\* returned and its locals are gone
HandleResult ==
    /\ pc = "match"
    /\ line' = NoLine
    /\ nread' = 0
    /\ unresponsive' = 0
    /\ output' = NoOutput
    /\ iter' = <<>>
    /\ chan' = [i \in Subs |-> [chan[i] EXCEPT !.got = 0]]
    /\ IF ConnectionArm(result)
       THEN /\ retried' = TRUE
            /\ options' = OptionsAfterDisconnect(options, retried)
            /\ first_fail' = IF first_fail = 0 THEN attempts ELSE first_fail
            /\ run_at_fail' = IF first_fail = 0 THEN status.run ELSE run_at_fail
            /\ IF status.run # "Reconnecting"
               THEN SetRun("Reconnecting") /\ chain' = 0
               ELSE UNCHANGED <<status, chain>>
            /\ IF MayRetry(RetriesAfterCheck(status.run, retries))
               THEN /\ retries' = RetriesAfterCheck(status.run, retries) + 1
                    /\ pc' = "sleep"
                    /\ UNCHANGED returned
               ELSE /\ retries' = RetriesAfterCheck(status.run, retries)
                    /\ returned' = result
                    /\ pc' = "done"
       ELSE /\ returned' = result
            /\ pc' = "done"
            /\ UNCHANGED <<options, retries, retried, status, first_fail,
                           chain, run_at_fail>>
    /\ UNCHANGED <<instruction, sender, process, attempts, spawn_args, result,
                   T, fds, call, borg, built, nops, store, cls, result_sink,
                   failure, stop>>

\* process.rs 298-299: std::thread::sleep(DELAY_RECONNECT), then continue
Sleep ==
    /\ pc = "sleep"
    /\ pc' = "spawn"
    /\ UNCHANGED <<options, retries, retried, status, instruction, sender,
                   chan, iter, process, unresponsive, line, nread, attempts,
                   spawn_args, result, returned, output, T, first_fail, chain,
                   run_at_fail, fds, call, borg, built, nops, store, cls,
                   result_sink, failure, stop>>

\* the holder of the Process handle drops it, and with it the receiving end
\* of the one-shot channel. Before the send a drop changes nothing in the job
\* task, so it is taken at the latest point, when handle_disconnect returned.
DropHandle ==
    /\ pc = "done"
    /\ result_sink.state = "open"
    /\ result_sink' = [result_sink EXCEPT !.state = "dropped"]
    /\ UNCHANGED <<pc, options, retries, retried, status, instruction, sender,
                   chan, iter, process, unresponsive, line, nread, attempts,
                   spawn_args, result, returned, output, T, first_fail, chain,
                   run_at_fail, fds, call, borg, built, nops, store, cls,
                   failure, stop>>

\* process.rs 254-258: result_sink.send(..).unwrap(), the last step of the
\* job task: the value is enqueued for the receiver, or send returns it in an
\* Err and unwrap panics
Deliver ==
    /\ pc = "done"
    /\ result_sink.state \in {"open", "dropped"}
    /\ result_sink' = IF result_sink.state = "open"
                      THEN [state |-> "sent", value |-> returned]
                      ELSE [result_sink EXCEPT !.state = "panicked"]
    /\ UNCHANGED <<pc, options, retries, retried, status, instruction, sender,
                   chan, iter, process, unresponsive, line, nread, attempts,
                   spawn_args, result, returned, output, T, first_fail, chain,
                   run_at_fail, fds, call, borg, built, nops, store, cls,
                   failure, stop>>

\* ------------------------------------------------------------ specification

Next ==
    \/ SetAbort
    \/ Subscribe
    \/ DropReceiver
    \/ ChildExit
    \/ Start
    \/ Spawn
    \/ SpawnFail
    \/ AbortObserved
    \/ Kill
    \/ KillFail
    \/ Wait
    \/ WaitFail
    \/ PollRead
    \/ ReadTimeout
    \/ ReadError
    \/ ReadEof
    \/ ReadLine
    \/ PublishOne
    \/ PublishFail
    \/ PublishDone
    \/ CloseOne
    \/ CloseDone
    \/ Output
    \/ OutputFail
    \/ HandleResult
    \/ Sleep
    \/ DropHandle
    \/ Deliver

Spec == Init /\ [][Next]_vars

TypeOK ==
    /\ pc \in {"start", "spawn", "poll", "read", "publish", "close", "output",
               "kill", "wait", "match", "sleep", "done"}
    /\ result_sink.state \in {"open", "dropped", "sent", "panicked"}
    /\ retries \in 0..MAX_RECONNECT
    /\ attempts \in 0..MaxAttempts
    /\ Len(status.history) <= HistoryLen
    /\ nread \in 0..MaxLines
    /\ line \in Lines \cup {NoLine}


\* ------------------------------------------------------------------ builder

\* the builder operations applied to one BorgCall
MaxOps == 3

\* the outcome of an operation that cannot fail and renders nothing
Applied(op) == [NoBuilt EXCEPT !.op = op]

BuilderInit ==
    /\ JobInit
    /\ sender = <<>>
    /\ T = "Unit"
    /\ call \in {new("create"), DefaultCall}
    /\ borg \in BorgConfigs
    /\ BuilderIdle
    /\ store = NoStore
    /\ cls = NoCls
    /\ failure = NoFailure
    /\ stop = NoStop

\* the job task's variables, which no builder operation touches
jobvars == <<pc, options, retries, retried, status, instruction, sender, chan,
             iter, process, unresponsive, line, nread, attempts, spawn_args,
             result, returned, output, T, first_fail, chain, run_at_fail,
             result_sink, failure, stop>>

\* process.rs 56-66, BorgCall::add_envs with one or two pairs
AddEnvs ==
    /\ nops < MaxOps
    /\ \E pairs \in EnvPairSeqs :
        /\ call' = [call EXCEPT !.envs = add_envs(@, pairs)]
        /\ built' = [NoBuilt EXCEPT !.op = "add_envs", !.vars = pairs]
    /\ nops' = nops + 1
    /\ UNCHANGED <<jobvars, fds, borg, store, cls>>

AddOptions ==
    /\ nops < MaxOps
    /\ call' = [call EXCEPT !.options = add_options(@, <<"--stats">>)]
    /\ built' = Applied("add_options")
    /\ nops' = nops + 1
    /\ UNCHANGED <<jobvars, fds, borg, store, cls>>

\* process.rs 80-83, BorgCall::add_positional
AddPositional ==
    /\ nops < MaxOps
    /\ call' = [call EXCEPT !.positional = Append(@, "/etc")]
    /\ built' = Applied("add_positional")
    /\ nops' = nops + 1
    /\ UNCHANGED <<jobvars, fds, borg, store, cls>>

AddIncludeExclude ==
    /\ nops < MaxOps
    /\ call' = add_include_exclude(call, borg)
    /\ built' = Applied("add_include_exclude")
    /\ nops' = nops + 1
    /\ UNCHANGED <<jobvars, fds, borg, store, cls>>

AddArchive ==
    /\ nops < MaxOps
    /\ call' = add_archive(call)
    /\ built' = Applied("add_archive")
    /\ nops' = nops + 1
    /\ UNCHANGED <<jobvars, fds, borg, store, cls>>

AddPassword ==
    /\ nops < MaxOps
    /\ call' = add_password(call, borg).call
    /\ built' = [NoBuilt EXCEPT !.op = "add_password",
                                !.ok = add_password(call, borg).ok,
                                !.kind = add_password(call, borg).kind]
    /\ nops' = nops + 1
    /\ UNCHANGED <<jobvars, fds, borg, store, cls>>

AddBasics ==
    /\ nops < MaxOps
    /\ call' = add_basics(call, borg).call
    /\ built' = [NoBuilt EXCEPT !.op = "add_basics",
                                !.ok = add_basics(call, borg).ok,
                                !.kind = add_basics(call, borg).kind]
    /\ nops' = nops + 1
    /\ UNCHANGED <<jobvars, fds, borg, store, cls>>

\* a call of args(): the builder is borrowed immutably
Args ==
    /\ nops < MaxOps
    /\ built' = [NoBuilt EXCEPT !.op = "args",
                    !.argv = args(call.command, call.options, call.positional)]
    /\ nops' = nops + 1
    /\ UNCHANGED <<jobvars, fds, borg, call, store, cls>>

\* process.rs 205-234, cmd / cmd_async: the argument vector and environment
\* of the command about to be spawned
Cmd ==
    /\ nops < MaxOps
    /\ built' = [op |-> "cmd", ok |-> TRUE, kind |-> "none",
                 argv |-> args(call.command, call.options, call.positional),
                 env |-> ChildEnv(set_password(call.password, fds), call.envs),
                 pipe |-> set_password(call.password, fds).pipe,
                 fd |-> FirstFreeFd(fds), vars |-> <<>>]
    /\ fds' = set_password(call.password, fds).fds
    /\ nops' = nops + 1
    /\ UNCHANGED <<jobvars, borg, call, store, cls>>

\* process.rs 208, 226: set_password()? fails; both ends of the pipe are
\* dropped with the error
CmdFail ==
    /\ nops < MaxOps
    /\ \E kind \in {"Io", "Unix"} :
        built' = [NoBuilt EXCEPT !.op = "cmd", !.ok = FALSE, !.kind = kind]
    /\ nops' = nops + 1
    /\ UNCHANGED <<jobvars, fds, borg, call, store, cls>>

\* process.rs 124-133: the secret store is outside the program; the item of
\* the job is removed from it after a builder took the job's secret from it
\* (a removal before that is a job that starts with an empty store)
SecretRemoved ==
    /\ nops < MaxOps
    /\ borg.store = "item"
    /\ call.password = StoredSecret
    /\ borg' = [borg EXCEPT !.store = "empty"]
    /\ UNCHANGED <<jobvars, fds, call, built, nops, store, cls>>

BuilderNext ==
    \/ SecretRemoved
    \/ AddEnvs
    \/ AddOptions
    \/ AddPositional
    \/ AddIncludeExclude
    \/ AddArchive
    \/ AddPassword
    \/ AddBasics
    \/ Args
    \/ Cmd
    \/ CmdFail

BuilderSpec == BuilderInit /\ [][BuilderNext]_vars


\* ------------------------------------------------------------- status store

\* the updates one writer publishes, and the loads a reader remembers
MaxUpdates == 3
MaxLoads == 2

\* the closures the job task passes to status.update (process.rs 267-269,
\* 290-292, 329-331, 354-356, 373-375, 381-383)
Updates ==
    {[field |-> "started", run |-> "none", line |-> NoLine]}
    \cup {[field |-> "run", run |-> r, line |-> NoLine] :
            r \in {"Reconnecting", "Stopping", "Stalled", "Running"}}
    \cup {[field |-> "history", run |-> "none", line |-> l] :
            l \in {LineConnectionClosed, LineText}}

\* the snapshot a closure makes of the one it is given
ApplyUpdate(snap, u) ==
    CASE u.field = "started" -> [snap EXCEPT !.started = TRUE]
      [] u.field = "run" -> [snap EXCEPT !.run = u.run]
      [] OTHER -> [snap EXCEPT !.history = add_message(@, check_line(u.line))]

\* a faulty variant of load that reads the run field from storage the writer
\* is filling
load_Torn(st) ==
    IF st.drafting
    THEN [st.published[Len(st.published)] EXCEPT !.run = st.draft.run]
    ELSE st.published[Len(st.published)]

\* status.load(): the snapshot published last
load(st) == st.published[Len(st.published)]

StoreInit ==
    /\ JobInit
    /\ sender = <<>>
    /\ T = "Unit"
    /\ call = new("create")
    /\ borg = NoBorg
    /\ BuilderIdle
    /\ store = NoStore
    /\ cls = NoCls
    /\ failure = NoFailure
    /\ stop = NoStop

\* process.rs 287, 352, 372: the load whose result decides whether the job
\* task makes the update
Checked(u, snap) ==
    CASE u.field = "run" /\ u.run = "Reconnecting" -> snap.run # "Reconnecting"
      [] u.field = "run" /\ u.run = "Stalled" -> snap.run # "Reconnecting"
      [] u.field = "run" /\ u.run = "Running" -> snap.run # "Running"
      [] OTHER -> TRUE

\* status.update(f), first part: the writer makes the new snapshot from the
\* current one in storage of its own
UpdateBegin ==
    /\ ~store.drafting
    /\ Len(store.published) <= MaxUpdates
    /\ \E u \in Updates :
        /\ Checked(u, load(store))
        /\ store' = [store EXCEPT !.drafting = TRUE,
                                  !.pending = u,
                                  !.base = Len(store.published),
                                  !.draft = ApplyUpdate(load(store), u)]
    /\ UNCHANGED <<pc, options, retries, retried, status, instruction, sender,
                   chan, iter, process, unresponsive, line, nread, attempts,
                   spawn_args, result, returned, output, T, first_fail, chain,
                   run_at_fail, fds, call, borg, built, nops, cls,
                   result_sink, failure, stop>>

\* a faulty variant of UpdateCommit that stores the snapshot it made without
\* comparing
UpdateCommit_Blind ==
    /\ store.drafting
    /\ store' = [store EXCEPT !.drafting = FALSE,
                              !.published = Append(@, store.draft)]
    /\ UNCHANGED <<pc, options, retries, retried, status, instruction, sender,
                   chan, iter, process, unresponsive, line, nread, attempts,
                   spawn_args, result, returned, output, T, first_fail, chain,
                   run_at_fail, fds, call, borg, built, nops, cls,
                   result_sink, failure, stop>>

\* status.update(f), second part: the new snapshot replaces the current one
\* in one step if that is still the one it was made from; otherwise the
\* transform is applied again to the one that is current now
UpdateCommit ==
    /\ store.drafting
    /\ store' = IF store.base = Len(store.published)
                THEN [store EXCEPT !.drafting = FALSE,
                                   !.published = Append(@, store.draft)]
                ELSE [store EXCEPT
                        !.base = Len(store.published),
                        !.draft = ApplyUpdate(load(store), store.pending)]
    /\ UNCHANGED <<pc, options, retries, retried, status, instruction, sender,
                   chan, iter, process, unresponsive, line, nread, attempts,
                   spawn_args, result, returned, output, T, first_fail, chain,
                   run_at_fail, fds, call, borg, built, nops, cls,
                   result_sink, failure, stop>>

\* another writer's transform: the estimated size becomes known
SetEstimatedSize(snap) == [snap EXCEPT !.estimated_size = "known"]

\* another writer calls status.update(f) while the job task may be in its own
OtherBegin ==
    /\ ~store.other.drafting
    /\ Len(store.published) <= MaxUpdates
    /\ load(store).estimated_size = "unknown"
    /\ store' = [store EXCEPT !.other = [drafting |-> TRUE,
                                         base |-> Len(store.published)]]
    /\ UNCHANGED <<pc, options, retries, retried, status, instruction, sender,
                   chan, iter, process, unresponsive, line, nread, attempts,
                   spawn_args, result, returned, output, T, first_fail, chain,
                   run_at_fail, fds, call, borg, built, nops, cls,
                   result_sink, failure, stop>>

\* the other writer's snapshot replaces the current one if that is still the
\* one it was made from; otherwise it starts again from the current one
OtherCommit ==
    /\ store.other.drafting
    /\ store' = IF store.other.base = Len(store.published)
                THEN [store EXCEPT
                        !.other.drafting = FALSE,
                        !.published = Append(@, SetEstimatedSize(load(store)))]
                ELSE [store EXCEPT !.other.base = Len(store.published)]
    /\ UNCHANGED <<pc, options, retries, retried, status, instruction, sender,
                   chan, iter, process, unresponsive, line, nread, attempts,
                   spawn_args, result, returned, output, T, first_fail, chain,
                   run_at_fail, fds, call, borg, built, nops, cls,
                   result_sink, failure, stop>>

\* a reader calls status.load(); at is the number of snapshots published
\* when it does
Load ==
    /\ LET this == [at |-> Len(store.published), val |-> load(store)]
       IN store' = [store EXCEPT !.loads =
                        IF Len(@) < MaxLoads
                        THEN Append(@, this)
                        ELSE Append(Tail(@), this)]
    /\ UNCHANGED <<jobvars, fds, borg, call, built, nops, cls>>

StoreNext ==
    \/ UpdateBegin
    \/ UpdateCommit
    \/ OtherBegin
    \/ OtherCommit
    \/ Load

StoreSpec == StoreInit /\ [][StoreNext]_vars


\* ---------------------------------------------------------- classification

ClassifyInit ==
    /\ JobInit
    /\ sender = <<>>
    /\ T = "Unit"
    /\ call = new("create")
    /\ borg = NoBorg
    /\ BuilderIdle
    /\ store = NoStore
    /\ \E l \in AllLines : cls = [NoCls EXCEPT !.line = l]
    /\ failure = NoFailure
    /\ stop = NoStop

\* process.rs 371-385: the event made of the line
ClassifyLine ==
    /\ ~cls.done
    /\ cls' = [cls EXCEPT !.event = Classify(cls.line), !.done = TRUE]
    /\ UNCHANGED <<jobvars, fds, borg, call, built, nops, store>>

ClassifyNext == ClassifyLine

ClassifySpec == ClassifyInit /\ [][ClassifyNext]_vars


\* ------------------------------------------------------- connection errors

FailureInit ==
    /\ JobInit
    /\ sender = <<>>
    /\ T = "Unit"
    /\ call = new("create")
    /\ borg = NoBorg
    /\ BuilderIdle
    /\ store = NoStore
    /\ cls = NoCls
    /\ \E e \in AllErrors : failure = [NoFailure EXCEPT !.err = e]
    /\ stop = NoStop

\* process.rs 276-278, 303: the arm of the match the error value takes
MatchFailure ==
    /\ ~failure.done
    /\ failure' = [failure EXCEPT
                     !.arm = IF ConnectionArm(failure.err) THEN "connection"
                                                           ELSE "other",
                     !.done = TRUE]
    /\ UNCHANGED <<pc, options, retries, retried, status, instruction, sender,
                   chan, iter, process, unresponsive, line, nread, attempts,
                   spawn_args, result, returned, output, T, first_fail, chain,
                   run_at_fail, fds, call, borg, built, nops, store, cls,
                   result_sink, stop>>

FailureNext == MatchFailure

FailureSpec == FailureInit /\ [][FailureNext]_vars


\* -------------------------------------------------------------- stop action

\* the states of a run, the kinds of task and the dialogs of the stop action
Runs == {"Init", "Running", "Stalled", "Reconnecting", "Stopping"}
Tasks == {"Create", "Prune", "Delete", "Other"}

StopInit ==
    /\ JobInit
    /\ sender = <<>>
    /\ T = "Unit"
    /\ call = new("create")
    /\ borg = NoBorg
    /\ BuilderIdle
    /\ store = NoStore
    /\ cls = NoCls
    /\ failure = NoFailure
    /\ \E a \in BOOLEAN, t \in Tasks, r \in Runs :
        stop = [NoStop EXCEPT !.active = a, !.task = t, !.run = r]

\* events.rs 26-72: the confirmation dialog shown for the task and for
\* whether it is aborting already
DialogFor(task, aborting) ==
    CASE task = "Create" /\ aborting -> "Abort Saving Backup State?"
      [] task = "Create" /\ ~aborting -> "Stop Running Backup?"
      [] task \in {"Prune", "Delete"} /\ aborting -> "Abort Delete Operation?"
      [] task \in {"Prune", "Delete"} /\ ~aborting -> "Stop Deleting Archives?"
      [] OTHER -> "Abort Operation?"

\* the job task changes the run state of the operation
RunChanges ==
    /\ stop.pc \in {"idle", "dialog"}
    /\ stop.active
    /\ \E r \in Runs \ {stop.run} : stop' = [stop EXCEPT !.run = r]
    /\ UNCHANGED <<pc, options, retries, retried, status, instruction, sender,
                   chan, iter, process, unresponsive, line, nread, attempts,
                   spawn_args, result, returned, output, T, first_fail, chain,
                   run_at_fail, fds, call, borg, built, nops, store, cls,
                   result_sink, failure>>

\* a faulty variant of StopTriggered that asks in no status
StopTriggered_NeverAsks ==
    /\ stop.pc = "idle"
    /\ IF ~stop.active
       THEN /\ stop' = [stop EXCEPT !.pc = "error"]
            /\ UNCHANGED instruction
       ELSE /\ instruction' = "Abort"
            /\ stop' = [stop EXCEPT !.pc = "done"]
    /\ UNCHANGED <<pc, options, retries, retried, status, sender, chan, iter,
                   process, unresponsive, line, nread, attempts, spawn_args,
                   result, returned, output, T, first_fail, chain,
                   run_at_fail, fds, call, borg, built, nops, store, cls,
                   result_sink, failure>>

\* events.rs 20-24, 74: on_stop_backup_create up to its first await: without
\* an active operation it returns the error; when the operation is
\* reconnecting it sets the instruction at once; otherwise it shows a dialog
StopTriggered ==
    /\ stop.pc = "idle"
    /\ IF ~stop.active
       THEN /\ stop' = [stop EXCEPT !.pc = "error"]
            /\ UNCHANGED instruction
       ELSE IF stop.run = "Reconnecting"
            THEN /\ instruction' = "Abort"
                 /\ stop' = [stop EXCEPT !.pc = "done"]
            ELSE /\ \E aborting \in BOOLEAN :
                        stop' = [stop EXCEPT
                                    !.pc = "dialog",
                                    !.asked = DialogFor(stop.task, aborting)]
                 /\ UNCHANGED instruction
    /\ UNCHANGED <<pc, options, retries, retried, status, sender, chan, iter,
                   process, unresponsive, line, nread, attempts, spawn_args,
                   result, returned, output, T, first_fail, chain,
                   run_at_fail, fds, call, borg, built, nops, store, cls,
                   result_sink, failure>>

\* events.rs 27-71, 74: the dialog returns Ok and the instruction is set
DialogConfirmed ==
    /\ stop.pc = "dialog"
    /\ instruction' = "Abort"
    /\ stop' = [stop EXCEPT !.pc = "done", !.answer = "confirmed"]
    /\ UNCHANGED <<pc, options, retries, retried, status, sender, chan, iter,
                   process, unresponsive, line, nread, attempts, spawn_args,
                   result, returned, output, T, first_fail, chain,
                   run_at_fail, fds, call, borg, built, nops, store, cls,
                   result_sink, failure>>

\* events.rs 27-71: the dialog returns an error and `?` returns it
DialogDeclined ==
    /\ stop.pc = "dialog"
    /\ stop' = [stop EXCEPT !.pc = "error", !.answer = "declined"]
    /\ UNCHANGED <<pc, options, retries, retried, status, instruction, sender,
                   chan, iter, process, unresponsive, line, nread, attempts,
                   spawn_args, result, returned, output, T, first_fail, chain,
                   run_at_fail, fds, call, borg, built, nops, store, cls,
                   result_sink, failure>>

StopNext ==
    \/ RunChanges
    \/ StopTriggered
    \/ DialogConfirmed
    \/ DialogDeclined

StopSpec == StopInit /\ [][StopNext]_vars

\* ------------------------------------------------------------------ claims

\* the number of occurrences of x in seq
Count(seq, x) == Cardinality({i \in 1..Len(seq) : seq[i] = x})

\* the argument vector carries the pair "--lock-wait <LOCK_WAIT_RECONNECT>" once,
\* among the options (before the "--" separator)
HasLockWaitOnce(argv) ==
    /\ Count(argv, "--lock-wait") = 1
    /\ \E i \in 1..(Len(argv) - 1) :
        /\ argv[i] = "--lock-wait"
        /\ argv[i + 1] = LOCK_WAIT_RECONNECT
        /\ \E j \in (i + 2)..Len(argv) : argv[j] = "--"

\* a log-based failure whose records include a connection-closed identifier
ConnectionFailure(res) ==
    /\ ~res.ok
    /\ res.kind = "Failed"
    /\ \E i \in 1..Len(res.msgs) :
        /\ res.msgs[i].parsed
        /\ res.msgs[i].msgid \in {"ConnectionClosed", "ConnectionClosedWithHint"}

\* C1: the first attempt's argument vector has no "--lock-wait"; every later
\* attempt's argument vector has the pair "--lock-wait <LOCK_WAIT_RECONNECT>"
\* exactly once, however often the retry counter was reset; the options hold
\* it once from the first connection-error failure on.
C1_LockWaitOnce ==
    /\ attempts = 1 => Count(spawn_args, "--lock-wait") = 0
    /\ attempts > 1 => HasLockWaitOnce(spawn_args)
    /\ Count(options, "--lock-wait") = (IF retried THEN 1 ELSE 0)
    /\ retried <=> first_fail > 0

\* C1 witness: a third attempt, spawned after the retry counter was reset
\* (MAX_RECONNECT + 2 attempts need a reset), still has the option once
C1_Witness ==
    /\ attempts = MAX_RECONNECT + 2
    /\ first_fail = 1
    /\ pc = "poll"
    /\ HasLockWaitOnce(spawn_args)

\* C2 as stated: after the first connection-error failure at most
\* MAX_RECONNECT further attempts are run.
C2_Original ==
    first_fail > 0 => attempts - first_fail <= MAX_RECONNECT

\* C2 amended: at most MAX_RECONNECT attempts are run since the status was
\* last set to Reconnecting (the counter restarts whenever a connection error
\* finds the status not Reconnecting, that is after a Progress line was read);
\* when handle_disconnect returns a connection error the counter stands at
\* MAX_RECONNECT, the status is still Reconnecting and the value returned is
\* the last attempt's result, unmodified.
C2_Amended ==
    /\ first_fail > 0 => chain <= MAX_RECONNECT
    /\ (pc = "done" /\ ConnectionFailure(returned)) =>
        /\ retries = MAX_RECONNECT
        /\ chain = MAX_RECONNECT
        /\ status.run = "Reconnecting"
        /\ returned = result

\* C2 witness: the retries are used up and the connection error is returned
C2_Witness ==
    /\ pc = "done"
    /\ ConnectionFailure(returned)
    /\ attempts = MAX_RECONNECT + 1

\* C3: a result that is not a connection-error failure ends the job at once:
\* handle_disconnect returns it unchanged, without another attempt or sleep,
\* and changes neither the options, the retry state nor the status; nothing
\* is spawned after the return.
C3_OtherResultsReturned ==
    /\ [][(pc = "match" /\ ~ConnectionFailure(result) /\ pc' # pc) =>
            /\ pc' = "done"
            /\ returned' = result
            /\ options' = options
            /\ status' = status
            /\ retries' = retries
            /\ retried' = retried
            /\ attempts' = attempts]_vars
    /\ [][(pc = "done") => (pc' = "done" /\ attempts' = attempts
                            /\ returned' = returned)]_vars

\* C3 witness: a structured failure without a connection-closed identifier
\* (wrong passphrase) was returned after a single attempt
C3_Witness ==
    /\ pc = "done"
    /\ attempts = 1
    /\ ~returned.ok
    /\ returned.kind = "Failed"
    /\ ~ConnectionFailure(returned)
    /\ options = InitialOptions
    /\ status.run # "Reconnecting"

\* C4 as stated: a failure carrying a PassphraseWrong record is never
\* followed by another attempt: while the latest attempt's result carries
\* one, the job task is matching it or has returned.
C4_PassphraseWrongNeverRetried ==
    has_borg_msgid(result, "PassphraseWrong") => pc \in {"match", "done"}

\* C5 as stated: once the abort is observed the attempt returns
\* Err(Aborted(User)), after SIGTERM was sent and the child has exited.
C5_Original ==
    (pc = "match" /\ status.run = "Stopping") =>
        /\ result.kind = "Aborted"
        /\ process.signal = "SIGTERM"
        /\ process.state = "exited"

\* C5 amended: after the abort is observed the status is Stopping before
\* SIGTERM is sent, SIGTERM is sent before the wait, and Err(Aborted(User)) is
\* returned only once the signalled child has exited; the attempt returns
\* Err(Aborted(User)) or, when sending the signal or waiting fails, that
\* signal/OS or I/O error, never a success; no line is read, no event
\* sent and no status update made after the abort is observed.
C5_AbortOrder ==
    /\ [](pc = "kill" => (status.run = "Stopping" /\ process.signal = "none"))
    /\ [](pc = "wait" => (status.run = "Stopping" /\ process.signal = "SIGTERM"))
    /\ []((pc = "match" /\ result.kind = "Aborted") =>
            /\ status.run = "Stopping"
            /\ process.signal = "SIGTERM"
            /\ process.state = "exited")
    /\ []((pc = "match" /\ status.run = "Stopping") =>
            (~result.ok /\ result.kind \in {"Aborted", "Unix", "Io"}))
    /\ [][(pc = "kill" \/ pc = "wait") =>
            /\ nread' = nread
            /\ status' = status
            /\ \A i \in Subs : chan'[i].got = chan[i].got
            /\ pc' \in {"kill", "wait", "match"}]_vars

\* C5 witness: the abort was observed after a line had been processed, and
\* the attempt returned Err(Aborted(User)) after the signalled child exited
C5_Witness ==
    /\ pc = "match"
    /\ result.kind = "Aborted"
    /\ nread > 0
    /\ process.signal = "SIGTERM"
    /\ process.state = "exited"

\* C6 as stated: whenever managed_process has returned from an attempt whose
\* child was spawned, every registered sender has been closed.
C6_AllClosedAtReturn ==
    (pc = "match" /\ process.state # "none") =>
        \A k \in 1..Len(sender) : chan[sender[k]].state = "closed"

\* C7 as stated: a subscriber registered throughout the attempt (its channel
\* neither closed nor dropped) has been sent an event for every line read,
\* at the top of each poll iteration and when the attempt returns.
C7_EveryLineDelivered ==
    pc \in {"poll", "read", "match"} =>
        \A k \in 1..Len(sender) :
            chan[sender[k]].state = "open" => chan[sender[k]].got = nread

\* the job had exactly two attempts, the first failed with a connection
\* error and the second succeeded
ScenarioC ==
    /\ pc = "done"
    /\ attempts = 2
    /\ first_fail = 1
    /\ returned.ok

C9_AnyLineEnsuresRunning ==
    (pc = "publish" /\ status.run # "Reconnecting") =>
        (status.run = "Running" /\ unresponsive = 0)

\* C10: when the child exited successfully the attempt's result is the
\* decode of its standard output as T: the payload when it is a document of
\* type T, a JSON error when it is not; for the no-value type the result
\* is a success whatever standard output holds.
C10_SuccessDecodes ==
    (pc = "match" /\ output.taken /\ output.code = 0) =>
        /\ T = "Unit" => result = MkOk("unit")
        /\ (T = "Stats" /\ output.stdout = "stats") => result = MkOk("stats")
        /\ (T = "Stats" /\ output.stdout # "stats") =>
                (~result.ok /\ result.kind = "Json")

\* C10 witness: exit 0 with stdout null and no line read gives a success
\* of the no-value type
C10_Witness ==
    /\ pc = "match"
    /\ output.taken
    /\ output.code = 0
    /\ output.stdout = "null"
    /\ T = "Unit"
    /\ nread = 0
    /\ attempts = 1
    /\ result = MkOk("unit")

\* C11: when the child exited with a non-zero status the attempt fails with
\* the log-based failure derived from the message history when one is
\* derivable and with the exit-code error carrying the exit code otherwise,
\* never with a JSON error, whatever standard output holds; a history of
\* exactly one ERROR-level record gives a failure carrying exactly that record,
\* a history without such a record the exit-code error.
C11_NonZeroExit ==
    (pc = "match" /\ output.taken /\ output.code # 0) =>
        /\ ~result.ok
        /\ result.kind \in {"Failed", "ReturnCode"}
        /\ DerivedRecords(status.history) # <<>> =>
                result = MkErr("Failed", DerivedRecords(status.history), 0)
        /\ DerivedRecords(status.history) = <<>> =>
                result = MkErr("ReturnCode", <<>>, output.code)
        /\ (Len(status.history) = 1 /\ SeverityBearing(status.history[1])) =>
                (result.kind = "Failed" /\ result.msgs = status.history)
        /\ (\A i \in 1..Len(status.history) :
                ~SeverityBearing(status.history[i])) =>
                (result.kind = "ReturnCode" /\ result.code = output.code)

\* C11 witness: one Progress line, then one ERROR-level record, exit 2 with
\* undecodable standard output: the failure carries exactly that record
C11_Witness ==
    /\ pc = "match"
    /\ attempts = 1
    /\ nread = 2
    /\ status.run = "Running"
    /\ output.taken
    /\ output.code = 2
    /\ output.stdout = "garbage"
    /\ T = "Stats"
    /\ Len(status.history) = 1
    /\ result = MkErr("Failed", status.history, 0)

\* C12: whatever builder operations were applied, no option, positional
\* argument or environment override of the BorgCall holds the credential
\* bytes, and each command rendered from it (one per attempt) has them neither
\* in its argument vector nor in an environment value: the credential is
\* written to the pipe, and the only credential-related environment entry is
\* BORG_PASSPHRASE_FD, whose value is a descriptor number: that of the pipe's
\* read end, or the one a caller gave as an override of that name.
C12_NoCleartextCredential ==
    /\ \A i \in 1..Len(call.options) : call.options[i] \notin Credentials
    /\ \A i \in 1..Len(call.positional) : call.positional[i] \notin Credentials
    /\ \A n \in UserEnvNames : call.envs[n] \notin Credentials
    /\ (built.op = "cmd" /\ built.ok) =>
        /\ \A i \in 1..Len(built.argv) : built.argv[i] \notin Credentials
        /\ \A n \in ChildEnvNames : built.env[n] \notin Credentials
        /\ built.env["BORG_PASSPHRASE"] = Unset
        /\ built.env["BORG_PASSPHRASE_FD"] \in
                {ToString(built.fd)} \cup FdOverrides
        /\ built.fd >= 3
        /\ built.pipe = call.password

\* C12 witness: a command was rendered for a call that resolved its
\* credential from the secret store and carries options and an override
C12_Witness ==
    /\ built.op = "cmd"
    /\ built.ok
    /\ call.password = StoredSecret
    /\ built.pipe = StoredSecret
    /\ Len(built.argv) > 3
    /\ built.env["BORG_PASSPHRASE_FD"] = "3"

\* C13: args() is the sub-command when one is set, then the options in the
\* order they were added, then one "--", then the positional arguments in
\* order; a call of args() leaves the builder as it was; the options of a
\* builder made by new(command) begin with "--rsh" and the ssh batch-mode
\* value.
C13_ArgsLayout ==
    /\ []((built.op \in {"args", "cmd"} /\ built.ok) =>
            LET c == Len(call.command)
                o == Len(call.options)
                p == Len(call.positional)
            IN /\ c <= 1
               /\ Len(built.argv) = c + o + 1 + p
               /\ \A i \in 1..c : built.argv[i] = call.command[i]
               /\ \A i \in 1..o : built.argv[c + i] = call.options[i]
               /\ built.argv[c + o + 1] = "--"
               /\ \A i \in 1..p : built.argv[c + o + 1 + i] = call.positional[i]
               /\ Count(built.argv, "--") = 1)
    /\ [](call.command # <<>> =>
            /\ Len(call.options) >= 2
            /\ call.options[1] = "--rsh"
            /\ call.options[2] = SshBatchMode)
    /\ [][(built'.op = "args") => (call' = call)]_vars

\* C13 witness: args() of a builder made by new with further options and
\* two positional arguments
C13_Witness ==
    /\ built.op = "args"
    /\ call.command = <<"create">>
    /\ Len(call.options) = 3
    /\ Len(call.positional) = 2
    /\ built.argv[1] = "create"
    /\ built.argv[2] = "--rsh"
    /\ built.argv[5] = "--"

\* the outcome of an add_password step for the explicit password, for the
\* secret of the store and for a job that is not encrypted
PasswordPrecedence ==
    /\ borg.password # NoPassword =>
            (built'.ok /\ call'.password = borg.password)
    /\ (borg.password = NoPassword /\ borg.is_encrypted /\ borg.config_id
        /\ borg.store = "item") =>
            (built'.ok /\ call'.password = StoredSecret)
    /\ (borg.password = NoPassword /\ ~borg.is_encrypted) =>
            (built'.ok /\ call'.password = EmptyPassword)

\* C14 as stated: the precedence, and add_password fails with the
\* missing-credential error exactly when there is no explicit password, the
\* job is encrypted and it has no identifier or the store no matching item.
C14_Original ==
    [][(nops' = nops + 1 /\ built'.op = "add_password") =>
        /\ PasswordPrecedence
        /\ (~built'.ok /\ built'.kind = "PasswordMissing") <=>
                /\ borg.password = NoPassword
                /\ borg.is_encrypted
                /\ (~borg.config_id \/ borg.store = "empty")]_vars

\* C14 amended: the precedence as stated; add_password fails exactly when
\* there is no explicit password, the job is encrypted and it has no
\* identifier, or the store has no matching item, or the store cannot be
\* queried or its secret not be read; every failure is the missing-credential
\* error and leaves the builder's credential as it was.
C14_AddPassword ==
    /\ [][(nops' = nops + 1 /\ built'.op = "add_password") =>
            /\ PasswordPrecedence
            /\ ~built'.ok <=>
                    /\ borg.password = NoPassword
                    /\ borg.is_encrypted
                    /\ (~borg.config_id \/ borg.store \in {"empty", "error"})
            /\ ~built'.ok => built'.kind = "PasswordMissing"]_vars
    /\ [][(built'.op = "add_password" /\ ~built'.ok) => (call' = call)]_vars

\* C14 witness: an explicit password was used for a job that is not
\* encrypted
C14_Witness ==
    /\ built.op = "add_password"
    /\ built.ok
    /\ ~borg.is_encrypted
    /\ borg.password = ExplicitPassword
    /\ call.password = ExplicitPassword

\* C15 as stated: once the child of an attempt was spawned the parent holds
\* neither end of a credential pipe open.
C15_NoDescriptorHeld ==
    process.state # "none" => fds = NoFds

C18_DroppedReceiverHarmless ==
    ~(pc = "match" /\ ~result.ok /\ result.kind = "Send")

\* the job task has ended: its last step, the send and unwrap, was taken
TaskFinished == result_sink.state \in {"sent", "panicked"}

\* C19 as stated: the job task never finishes without the result sent on the
\* one-shot channel, and what is sent is the value handle_disconnect returned.
C19_ResultSent ==
    TaskFinished =>
        /\ result_sink.state = "sent"
        /\ result_sink.value = returned

\* C20 as stated: whenever an attempt that spawned a child returns an error,
\* that child has exited.
C20_ChildExitedAtError ==
    (pc = "match" /\ ~result.ok /\ process.state # "none") =>
        process.state = "exited"

\* C21: the abort instruction is looked at at the top of every poll
\* iteration, before the read: once it is set no read is begun any more, so at
\* most the read in flight completes and at most its one event is published;
\* the next step at the top of the loop sets the status to Stopping, and
\* SIGTERM is sent after that and before anything else.
C21_AbortCheckedBeforeRead ==
    /\ [][(instruction = "Abort" /\ pc' = "read") => pc = "read"]_vars
    /\ [][(instruction = "Abort" /\ pc = "publish") =>
            (nread' = nread /\ pc' \in {"publish", "poll", "match"})]_vars
    /\ [][(instruction = "Abort" /\ pc = "poll" /\ pc' # "poll") =>
            /\ pc' = "kill"
            /\ status'.run = "Stopping"
            /\ nread' = nread
            /\ process' = process]_vars
    /\ [][(pc = "kill" /\ pc' = "wait") =>
            (process.signal = "none" /\ process'.signal = "SIGTERM")]_vars

\* C21 witness: the abort was seen at the top of the loop after a line was
\* read and its event published to a subscriber
C21_Witness ==
    /\ pc = "kill"
    /\ status.run = "Stopping"
    /\ nread = 1
    /\ Len(sender) > 0
    /\ chan[sender[1]].got = 1

\* C22: a read timeout adds one poll timeout to the unresponsive duration,
\* which is zero when the attempt starts and after every line read; the
\* timeout sets status.run to Stalled exactly when the duration then strictly
\* exceeds STALL_THRESHOLD and status.run is not Reconnecting, and otherwise
\* leaves the status alone; nothing else sets Stalled, and the timeout leaves
\* the child and the attempt's result untouched and goes back to the top of
\* the loop.
C22_StalledOnTimeout ==
    /\ [][(pc = "read" /\ pc' = "poll") =>
            /\ unresponsive' = unresponsive + 1
            /\ status' = IF unresponsive' > STALL_THRESHOLD
                            /\ status.run # "Reconnecting"
                         THEN [status EXCEPT !.run = "Stalled"]
                         ELSE status
            /\ result' = result
            /\ process' = process
            /\ attempts' = attempts]_vars
    /\ [][(pc = "read" /\ pc' = "publish") => unresponsive' = 0]_vars
    /\ [][(pc = "spawn" /\ pc' = "poll") => unresponsive' = 0]_vars
    /\ [][(status'.run = "Stalled" /\ status.run # "Stalled") =>
            /\ pc = "read"
            /\ pc' = "poll"
            /\ unresponsive' > STALL_THRESHOLD
            /\ status.run # "Reconnecting"]_vars

\* C22 witness: the timeout that took the duration over the threshold has set
\* Stalled and the attempt goes on
C22_Witness ==
    /\ pc = "poll"
    /\ unresponsive = STALL_THRESHOLD + 1
    /\ status.run = "Stalled"
    /\ process.state = "running"

\* C23: an error value takes the connection arm exactly when it is a
\* log-based failure whose record list holds, at any position, a parsed
\* record with identifier ConnectionClosed or ConnectionClosedWithHint; a
\* list of unparsable records never does, nor does an I/O, JSON, signal,
\* exit-code, missing-credential, send or abort error.
C23_ConnectionErrorExactly ==
    failure.done =>
        /\ (failure.arm = "connection") = ConnectionFailure(failure.err)
        /\ failure.err.kind # "Failed" => failure.arm = "other"
        /\ (\A i \in 1..Len(failure.err.msgs) : ~failure.err.msgs[i].parsed) =>
                failure.arm = "other"

\* C23 witness: a failure whose second record is the parsed connection-closed
\* record, after an unparsable first one, took the connection arm
C23_Witness ==
    /\ failure.done
    /\ failure.arm = "connection"
    /\ Len(failure.err.msgs) = 2
    /\ ~failure.err.msgs[1].parsed
    /\ failure.err.msgs[2].msgid = "ConnectionClosedWithHint"

\* C24 as stated: a line read has exactly one of two status effects (a
\* Progress line ensures Running and leaves the history as it is, any other
\* line is appended to the history by add_message and leaves status.run as it
\* is), and when the publish loop is left the event has been sent to every
\* current subscriber whose channel is open.
C24_LineEffects ==
    /\ [][(pc = "read" /\ pc' = "publish") =>
            IF IsProgress(line')
            THEN /\ status'.run = "Running"
                 /\ status'.history = status.history
            ELSE /\ status'.run = status.run
                 /\ status'.history =
                        add_message(status.history, EntryOf(Classify(line')))]_vars
    /\ [][(pc = "publish" /\ pc' # "publish") =>
            \A k \in 1..Len(sender) :
                chan'[sender[k]].state = "open" =>
                    chan'[sender[k]].got = nread]_vars

\* the status effects of C24 alone
C24_StatusEffects ==
    [][(pc = "read" /\ pc' = "publish") =>
            IF IsProgress(line')
            THEN /\ status'.run = "Running"
                 /\ status'.history = status.history
            ELSE /\ status'.run = status.run
                 /\ status'.history =
                        add_message(status.history, EntryOf(Classify(line')))]_vars

\* the archive target add_archive builds
ArchiveTarget == Repo \o "::" \o ArchivePrefix \o RandomStr

\* C25: add_archive replaces the first positional with
\* "<repo>::<archive_prefix><random id>" when there is a positional and
\* appends it only when there is none; the other positionals, the options,
\* the environment, the credential and the command are unchanged, and the
\* positional count afterwards is max(1, count before).
C25_AddArchive ==
    [][(nops' = nops + 1 /\ built'.op = "add_archive") =>
        /\ call'.positional =
              IF call.positional # <<>>
              THEN [call.positional EXCEPT ![1] = ArchiveTarget]
              ELSE <<ArchiveTarget>>
        /\ Len(call'.positional) =
              IF Len(call.positional) > 1 THEN Len(call.positional) ELSE 1
        /\ \A i \in 2..Len(call.positional) :
              call'.positional[i] = call.positional[i]
        /\ call'.options = call.options
        /\ call'.envs = call.envs
        /\ call'.password = call.password
        /\ call'.command = call.command]_vars

\* C25 witness: add_archive replaced the first of two positionals and kept
\* the second
C25_Witness ==
    /\ built.op = "add_archive"
    /\ Len(call.positional) = 2
    /\ call.positional[1] = ArchiveTarget
    /\ call.positional[2] = "/etc"

\* what the builder's content tells of the operations applied to it
AppliedBasics ==
    \E i \in 1..Len(call.options) : call.options[i] = "--log-json"
AppliedIncludeExclude ==
    \E i \in 1..Len(call.options) :
        call.options[i] = "--exclude=" \o borg_pattern(absolute(REPO_MOUNT_DIR))
AppliedArchive ==
    call.positional # <<>> /\ call.positional[1] = ArchiveTarget
NoOtherPositional ==
    \A i \in 1..Len(call.positional) : call.positional[i] # "/etc"

\* C26 as stated: after add_basics, add_include_exclude and add_archive were
\* applied to a fresh builder, in any order, the first positional is the
\* repository target and every include directory of the job is among the
\* later positionals.
C26_RepositoryFirst ==
    (AppliedBasics /\ AppliedIncludeExclude /\ AppliedArchive
     /\ NoOtherPositional) =>
        /\ call.positional[1] \in {Repo, ArchiveTarget}
        /\ \A k \in 1..Len(include_dirs(borg)) :
              \E i \in 2..Len(call.positional) :
                  call.positional[i] = include_dirs(borg)[k]

\* the number of "--exclude=" options add_include_exclude adds for the job
ExcludeCount == Len(borg.exclude) + 1

\* C27: add_include_exclude appends one "--exclude=<pattern>" option for each
\* user exclusion of the job, in order, and one for the mount directory of the
\* repository after them, Len(exclude) + 1 options in all, the last also when
\* the job has no exclusion; it appends the include directories of the job to
\* the positionals; what the options and positionals held before stays, in
\* place, and command, environment and credential are unchanged.
C27_AddIncludeExclude ==
    [][(nops' = nops + 1 /\ built'.op = "add_include_exclude") =>
        /\ Len(call'.options) = Len(call.options) + ExcludeCount
        /\ SubSeq(call'.options, 1, Len(call.options)) = call.options
        /\ \A k \in 1..Len(borg.exclude) :
              call'.options[Len(call.options) + k] =
                  "--exclude=" \o borg_pattern(absolute(borg.exclude[k]))
        /\ call'.options[Len(call'.options)] =
              "--exclude=" \o borg_pattern(absolute(REPO_MOUNT_DIR))
        /\ call'.positional =
              call.positional \o
              [k \in 1..Len(borg.include) |-> absolute(borg.include[k])]
        /\ call'.command = call.command
        /\ call'.envs = call.envs
        /\ call'.password = call.password]_vars

\* C27 witness: add_include_exclude was applied for a job without user
\* exclusions to a builder that already held options and a positional
C27_Witness ==
    /\ built.op = "add_include_exclude"
    /\ borg.exclude = <<>>
    /\ Len(call.positional) > Len(borg.include)
    /\ Len(call.options) > 3
    /\ call.options[Len(call.options)] = "--exclude=pp:/home/user/.mnt/borg"

\* the value of the last of the pairs that names n
LastValue(pairs, n) ==
    pairs[CHOOSE i \in 1..Len(pairs) :
            /\ pairs[i][1] = n
            /\ \A j \in (i + 1)..Len(pairs) : pairs[j][1] # n][2]

\* C28: after an add_envs call every name among its pairs maps to the value
\* of the last pair given for it and every other name keeps its value, so
\* that over any sequence of calls the last write wins; the call leaves
\* command, options, positionals and credential alone; the environment given
\* to the child holds each overridden name with that value.
C28_LastWriteWins ==
    /\ [][(nops' = nops + 1 /\ built'.op = "add_envs") =>
            /\ \A n \in UserEnvNames :
                  call'.envs[n] =
                      IF \E i \in 1..Len(built'.vars) : built'.vars[i][1] = n
                      THEN LastValue(built'.vars, n)
                      ELSE call.envs[n]
            /\ call'.command = call.command
            /\ call'.options = call.options
            /\ call'.positional = call.positional
            /\ call'.password = call.password]_vars
    /\ []((built.op = "cmd" /\ built.ok) =>
            \A n \in UserEnvNames :
                call.envs[n] # Unset => built.env[n] = call.envs[n])

\* C28 witness: one add_envs call gave two values for a name and the name
\* maps to the second
C28_Witness ==
    /\ built.op = "add_envs"
    /\ Len(built.vars) = 2
    /\ built.vars[1][1] = "BORG_BASE_DIR"
    /\ built.vars[2][1] = "BORG_BASE_DIR"
    /\ built.vars[1][2] = "yes"
    /\ built.vars[2][2] = "no"
    /\ call.envs["BORG_BASE_DIR"] = "no"

\* C29: with the job task and another writer both in status.update(), the
\* published snapshots form one sequence that only grows; every publication
\* is the transform of one writer applied to the snapshot published just
\* before it, so that no update is lost; the other writer's change to the
\* estimated size is in every later snapshot, whatever the job task publishes
\* after checking the run state, and the job task's start time is in every
\* later snapshot, whatever the other writer publishes.
C29_NoLostUpdate ==
    /\ [][Len(store'.published) > Len(store.published) =>
            /\ store'.published =
                  Append(store.published,
                         store'.published[Len(store'.published)])
            /\ \/ /\ store.drafting
                  /\ ~store'.drafting
                  /\ store'.published[Len(store'.published)] =
                        ApplyUpdate(load(store), store.pending)
               \/ /\ store.other.drafting
                  /\ ~store'.other.drafting
                  /\ store'.published[Len(store'.published)] =
                        SetEstimatedSize(load(store))]_vars
    /\ [](\A i \in 1..Len(store.published) :
            \A j \in i..Len(store.published) :
                /\ store.published[i].estimated_size = "known" =>
                        store.published[j].estimated_size = "known"
                /\ store.published[i].started => store.published[j].started)

\* C29 witness: the other writer has published the estimated size while the
\* job task, after its check, holds a snapshot made from the one before
C29_Witness ==
    /\ store.drafting
    /\ store.pending.field = "run"
    /\ store.base < Len(store.published)
    /\ load(store).estimated_size = "known"
    /\ store.draft.estimated_size = "unknown"

\* C30: the stop action sets the abort instruction on the active operation
\* at once, showing no dialog, when the operation's status is Reconnecting; in
\* every other status it shows a confirmation dialog and sets the instruction
\* only when the dialog was confirmed; a declined dialog leaves the
\* instruction as it was; nothing else in the handler changes the instruction.
C30_StopAction ==
    /\ [][(stop.pc = "idle" /\ stop'.pc # "idle" /\ stop.active) =>
            IF stop.run = "Reconnecting"
            THEN /\ instruction' = "Abort"
                 /\ stop'.pc = "done"
                 /\ stop'.asked = "none"
            ELSE /\ instruction' = instruction
                 /\ stop'.pc = "dialog"
                 /\ stop'.asked # "none"]_vars
    /\ [][instruction' # instruction =>
            /\ instruction' = "Abort"
            /\ stop.active
            /\ \/ stop.pc = "idle" /\ stop.run = "Reconnecting"
               \/ stop.pc = "dialog" /\ stop'.answer = "confirmed"]_vars
    /\ [][stop'.answer = "declined" => instruction' = instruction]_vars
    /\ [](stop.pc = "done" => instruction = "Abort")
    /\ [](stop.answer = "declined" => instruction = "Nothing")

\* C30 witness: the instruction was set without a dialog for a reconnecting
\* operation
C30_Witness ==
    /\ stop.pc = "done"
    /\ stop.run = "Reconnecting"
    /\ stop.asked = "none"
    /\ instruction = "Abort"

\* C31: a connection-error failure that finds status.run not Reconnecting
\* restarts the retry counter at zero: the counter then counts this retry
\* alone and the job is retried, however many attempts were run before; a
\* failure that finds Reconnecting counts on and ends the job at
\* MAX_RECONNECT. Between attempts status.run leaves Reconnecting for Running
\* only when a Progress line is read, so MAX_RECONNECT limits the
\* connection-error failures in a row with no Progress line in between, not
\* the attempts of the job.
C31_CounterRestarts ==
    /\ [][(pc = "match" /\ ConnectionFailure(result) /\ pc' # pc
           /\ status.run # "Reconnecting") =>
            /\ retries' = (IF 0 < MAX_RECONNECT THEN 1 ELSE 0)
            /\ pc' = (IF 0 < MAX_RECONNECT THEN "sleep" ELSE "done")
            /\ status'.run = "Reconnecting"
            /\ chain' = 0]_vars
    /\ [][(pc = "match" /\ ConnectionFailure(result) /\ pc' # pc
           /\ status.run = "Reconnecting") =>
            IF retries < MAX_RECONNECT
            THEN retries' = retries + 1 /\ pc' = "sleep"
            ELSE retries' = retries /\ pc' = "done" /\ returned' = result]_vars
    /\ [][(status.run = "Reconnecting" /\ status'.run = "Running") =>
            /\ pc = "read"
            /\ pc' = "publish"
            /\ IsProgress(line')]_vars
    /\ [][retries' # retries => (pc = "match" /\ ConnectionFailure(result))]_vars
    /\ [](chain <= retries \/ first_fail = 0)

\* C31 witness: the third attempt of a job with MAX_RECONNECT = 1 failed with a
\* connection error after reading a Progress line, and the job is retried
\* again with the counter at one
C31_Witness ==
    /\ pc = "sleep"
    /\ attempts = MAX_RECONNECT + 2
    /\ first_fail = 1
    /\ retries = 1
    /\ ConnectionFailure(result)

\* C32: once the abort instruction is set no child is spawned any more, and
\* an abort set during the delay between two attempts ends the job with the
\* user-abort error without another attempt.
C32_NoSpawnAfterAbort ==
    /\ [][instruction = "Abort" => attempts' = attempts]_vars
    /\ [][(pc = "sleep" /\ instruction = "Abort" /\ pc' # pc) =>
            (pc' = "done" /\ returned'.kind = "Aborted")]_vars

\* C33: a subscriber that was closed is sent no further event, and a line
\* read while a closed subscriber is still registered does not make the
\* attempt fail: no attempt ends with a send error on a channel that the
\* engine closed itself at the end of stream of an earlier attempt.
C33_ClosedSubscriberSkipped ==
    /\ [][\A i \in Subs :
            chan[i].state = "closed" => chan'[i].got \in {0, chan[i].got}]_vars
    /\ [][(pc = "publish" /\ pc' = "match") =>
            chan[Head(iter)].state # "closed"]_vars

\* C34: the log-based failure an attempt returns carries only records read
\* during that attempt, so it carries no more records than the attempt read
\* lines; an attempt that read no line at all is not given a log-based
\* failure, and so is not classified as a connection error and retried on
\* account of a record an earlier attempt left in the message history.
C34_OnlyThisAttemptsRecords ==
    (pc = "match" /\ result.kind = "Failed") => Len(result.msgs) <= nread

\* C35: the BORG_PASSPHRASE_FD entry of the environment the child is given
\* names the read end of the credential pipe made for this command, whatever
\* overrides the caller gave to add_envs, one for BORG_PASSPHRASE_FD included.
C35_PassphraseFdIsPipe ==
    (built.op = "cmd" /\ built.ok) =>
        built.env["BORG_PASSPHRASE_FD"] = ToString(built.fd)

\* C36: the engine takes status.run out of Reconnecting in two ways only: to
\* Running when a Progress line is read, to Stopping when the abort
\* instruction is observed at the top of the poll loop. Every other step
\* (a log or text line, a read timeout, the end of stream, the child's exit,
\* the match on the result, the sleep, a new spawn) leaves it Reconnecting;
\* a job that returns a connection error has it Reconnecting at the end.
C36_LeavingReconnecting ==
    /\ [][(status.run = "Reconnecting" /\ status'.run # "Reconnecting") =>
            \/ /\ pc = "read"
               /\ pc' = "publish"
               /\ IsProgress(line')
               /\ status'.run = "Running"
            \/ /\ pc = "poll"
               /\ pc' = "kill"
               /\ instruction = "Abort"
               /\ status'.run = "Stopping"]_vars
    /\ [][(status.run = "Reconnecting" /\ pc = "read" /\ pc' = "publish") =>
            (status'.run = "Running" <=> IsProgress(line'))]_vars
    /\ [][(status.run = "Reconnecting" /\ pc = "poll" /\ pc' # pc) =>
            (status'.run = "Stopping" <=> instruction = "Abort")]_vars
    /\ []((pc = "done" /\ ConnectionFailure(returned)) =>
            status.run = "Reconnecting")

\* C36 witness: the second attempt read a line that is no Progress line and
\* succeeded; the job ended with status.run still Reconnecting
C36_Witness ==
    /\ pc = "done"
    /\ returned.ok
    /\ attempts = 2
    /\ first_fail = 1
    /\ Len(status.history) = 2
    /\ status.run = "Reconnecting"

\* C37: status.run becomes Stopping only in the step in which the job task
\* observes the abort instruction. From then on the engine leaves the status
\* as it is, reads no line, publishes no event and spawns no child: it sends
\* the signal, waits for the exit and returns. The job's result is the
\* user-abort error, or the signal or I/O error of a failed kill or wait, and
\* handle_disconnect returns it without a retry.
C37_Stopping ==
    /\ [][(status'.run = "Stopping" /\ status.run # "Stopping") =>
            (pc = "poll" /\ pc' = "kill" /\ instruction = "Abort")]_vars
    /\ [][status.run = "Stopping" =>
            /\ status' = status
            /\ attempts' = attempts
            /\ retries' = retries
            /\ \A i \in Subs : chan'[i].got \in {0, chan[i].got}
            /\ line' \in {line, NoLine}
            /\ nread' \in {nread, 0}]_vars
    /\ [](status.run = "Stopping" => pc \in {"kill", "wait", "match", "done"})
    /\ []((status.run = "Stopping" /\ pc \in {"match", "done"}) =>
            /\ ~result.ok
            /\ result.kind \in {"Aborted", "Unix", "Io"})
    /\ []((status.run = "Stopping" /\ pc = "done") => returned = result)
    /\ [][(status.run = "Stopping" /\ pc = "wait" /\ pc' = "match"
           /\ process.state = "exited" /\ process'.state = "exited") =>
            result'.kind \in {"Aborted", "Io"}]_vars

\* C37 witness: the abort was observed in a retried attempt, the child was
\* signalled and waited for, and the job ended with the user-abort error
C37_Witness ==
    /\ pc = "done"
    /\ status.run = "Stopping"
    /\ attempts = 2
    /\ returned.kind = "Aborted"
    /\ process.signal = "SIGTERM"
    /\ process.state = "exited"

\* C38: the job task looks at the abort instruction at the top of a poll
\* iteration and nowhere else. After the end-of-stream read of an attempt no
\* signal is sent and status.run is not set to Stopping, whatever the
\* instruction is; the attempt's result is computed from the child's exit
\* status, its standard output and the message history (or is the error of
\* a failed wait), the same with and without the instruction set.
C38_AbortOnlyAtPoll ==
    /\ [][(status'.run = "Stopping" /\ status.run # "Stopping") =>
            pc = "poll"]_vars
    /\ [][(process'.signal = "SIGTERM" /\ process.signal # "SIGTERM") =>
            (pc = "kill" /\ status.run = "Stopping")]_vars
    /\ [][(pc \in {"close", "output"}) =>
            /\ status' = status
            /\ process'.signal = process.signal
            /\ pc' \in {"close", "output", "match"}]_vars
    /\ [][(pc = "output" /\ pc' = "match") =>
            \/ result' = MkErr("Io", <<>>, 0)
            \/ /\ output'.taken
               /\ result' = ExitResult(T, output'.code, output'.stdout,
                                       status.history)]_vars

\* C38 witness: the abort instruction was set after the last look at it, the
\* attempt ended at the end of stream and its result is a success; no signal
\* was sent and the status is not Stopping
C38_Witness ==
    /\ pc = "match"
    /\ instruction = "Abort"
    /\ output.taken
    /\ output.code = 0
    /\ result.ok
    /\ process.signal = "none"
    /\ status.run # "Stopping"

\* C39: add_password and add_basics fail exactly when no credential can be
\* had (no explicit password, the job encrypted, and no identifier, no item
\* or no access to the store); the failure is the missing-credential error
\* and leaves the builder as it was: the credential stored before, the
\* command, the options, the positionals and the environment. A failing
\* add_basics has added neither "--log-json", nor the repository, nor the
\* repository's command-line options.
C39_FailureLeavesBuilder ==
    /\ [][(nops' = nops + 1 /\ built'.op \in {"add_password", "add_basics"}) =>
            /\ ~built'.ok <=>
                  /\ borg.password = NoPassword
                  /\ borg.is_encrypted
                  /\ (~borg.config_id \/ borg.store \in {"empty", "error"})
            /\ ~built'.ok =>
                  /\ built'.kind = "PasswordMissing"
                  /\ call'.password = call.password
                  /\ call'.command = call.command
                  /\ call'.options = call.options
                  /\ call'.positional = call.positional
                  /\ call'.envs = call.envs]_vars
    /\ [][(nops' = nops + 1 /\ built'.op = "add_basics" /\ built'.ok) =>
            /\ Count(call'.options, "--log-json") =
                    Count(call.options, "--log-json") + 1
            /\ call'.positional # <<>>]_vars

\* C39 witness: add_basics failed on a builder that held the secret taken
\* from the store before the item was removed; the builder still holds that
\* secret and has no "--log-json" and no positional
C39_Witness ==
    /\ built.op = "add_basics"
    /\ ~built.ok
    /\ built.kind = "PasswordMissing"
    /\ borg.store = "empty"
    /\ call.password = StoredSecret
    /\ Count(call.options, "--log-json") = 0
    /\ call.positional = <<>>

====
